---- MODULE Spec2Model ----
(***************************************************************************)
(* A model of two subsystems of pytorch_lightning:                         *)
(*   - ResultMetric / ResultCollection                                     *)
(*       trainer/connectors/logger_connector/result.py                     *)
(*   - CheckpointConnector                                                 *)
(*       trainer/connectors/checkpoint_connector.py                        *)
(*                                                                         *)
(* Conventions.  Python None is the string "None" where the other values   *)
(* are strings, NoIdx (-1) where they are integers, and the empty sequence *)
(* where a value is optional (Some(x) is <<x>>).  A zero-dimensional float  *)
(* tensor is a reduced fraction [n, d]; [n |-> 0, d |-> 0] is nan.          *)
(* A storage key "fx.name[.idx]" is the sequence of its '.'-separated      *)
(* components, so that key.split('.')[-1] is its last element.             *)
(***************************************************************************)
EXTENDS Integers, Sequences, FiniteSets, TLC

VARIABLES
    items,                  \* ResultCollection as a dict: key -> stored value
    order,                  \* insertion order of the dict's keys
    training,               \* ResultCollection.training
    on_epoch_end_reached,   \* ResultCollection._on_epoch_end_reached
    current_fx,             \* ResultCollection._current_fx
    batch_size,             \* ResultCollection.batch_size
    batch_idx,              \* ResultCollection.batch_idx
    mobj,                   \* the live torchmetrics objects of the module, by attribute
    op,                     \* the last operation and its arguments
    ret,                    \* what the last operation returned or raised
    logged,                 \* history: per key, what was fed since its last reset (see Fed)
    wasReset,               \* history: the keys whose ResultMetric.reset() the last operation called
    prevLogFx,              \* history: the reset scope of the previous successful log call
    epochView,              \* history: what get_epoch_metrics returned since the last log or reset
    nlogs,                  \* number of log calls made
    fs,                     \* the file system: path -> the checkpoint stored in the file
    trainer,                \* the Trainer: counters, limits, strategy flags, component states
    resume_checkpoint_path, \* CheckpointConnector.resume_checkpoint_path
    loaded_checkpoint,      \* CheckpointConnector.loaded_checkpoint
    pc,                     \* the statement of restore() that runs next, "idle" outside restore()
    trace,                  \* history: what the current restore has done so far, in order
    ckop,                   \* the last connector operation or step
    ckret,                  \* what it returned or raised
    lastLoaded,             \* history: the checkpoint the last resume_start read
    caller,                 \* who called the step that runs: restore() or a caller of the step itself
    atCall,                 \* history: the trainer when the current restore() or resume_start() began
    ncalls,                 \* number of restore() and resume_start() calls made
    job,                    \* the save_checkpoint() or hpc_save() call under way, or the last one
    written,                \* history: the checkpoint files written, in order
    warned,                 \* history: the warnings emitted by hpc_save
    wpc,                    \* several workers: the statement of restore() each runs next
    wtrace                  \* history: what each worker has done in its restore()

rcvars == <<items, order, training, on_epoch_end_reached, current_fx, batch_size,
            batch_idx, mobj, op, ret, logged, wasReset, prevLogFx, epochView, nlogs>>

ckvars == <<fs, trainer, resume_checkpoint_path, loaded_checkpoint, pc, trace, ckop, ckret,
            lastLoaded, atCall, caller, ncalls, job, written, warned, wpc, wtrace>>

savevars == <<job, written, warned>>

wvars == <<wpc, wtrace>>

\* the variables of the connector of a single process
solovars == <<fs, trainer, resume_checkpoint_path, loaded_checkpoint, pc, trace, ckop, ckret,
              lastLoaded, atCall, caller, ncalls, job, written, warned>>

vars == <<rcvars, ckvars>>

----------------------------------------------------------------------------
(* Bounds of the model *)

MaxAccLogs == 2
MaxScopeLogs == 2
MaxViewLogs == 2
MaxBatchIdx == 1
MaxObjUpdates == 1
MaxHpcIndex == 2
MaxRestores == 1
MaxSaves == 2
NumWorkers == 2

----------------------------------------------------------------------------
(* Values *)

None == "None"
NoIdx == 0 - 1
Some(x) == <<x>>
Nothing == <<>>

Abs(n) == IF n < 0 THEN 0 - n ELSE n

RECURSIVE GCD(_, _)
GCD(a, b) == IF b = 0 THEN a ELSE GCD(b, a % b)

\* a / b on float tensors: torch division, nan for 0/0 (batch sizes are never negative)
Frac(n, d) ==
    IF d = 0 THEN [n |-> 0, d |-> 0]
    ELSE LET g == GCD(Abs(n), d) IN [n |-> n \div g, d |-> d \div g]

Scalar(n) == Frac(n, 1)

MaxOf(a, b) == IF a >= b THEN a ELSE b
MinOf(a, b) == IF a <= b THEN a ELSE b

----------------------------------------------------------------------------
(* Metadata *)

Metadata(fx, name, prog_bar, logger, on_step, on_epoch, reduce_fx, dataloader_idx, metric_attribute) ==
    [fx |-> fx, name |-> name, prog_bar |-> prog_bar, logger |-> logger,
     on_step |-> on_step, on_epoch |-> on_epoch, reduce_fx |-> reduce_fx,
     dataloader_idx |-> dataloader_idx, metric_attribute |-> metric_attribute,
     has_reset |-> FALSE]

forked(meta) == meta.on_step /\ meta.on_epoch

forked_name(meta, on_step) ==
    IF forked(meta) THEN meta.name \o "_" \o (IF on_step THEN "step" ELSE "epoch")
    ELSE meta.name

is_mean_reduction(meta) == meta.reduce_fx = "mean"
is_max_reduction(meta) == meta.reduce_fx = "max"
is_min_reduction(meta) == meta.reduce_fx = "min"

----------------------------------------------------------------------------
(* ResultMetric.  The states registered with add_state are value and       *)
(* cumulated_batch_size, both with default torch.tensor(0.); for a         *)
(* torchmetrics object the ResultMetric holds a reference (ref) to it.     *)

ResultMetricNew(is_tensor) ==
    [is_tensor |-> is_tensor, value |-> 0, cumulated_batch_size |-> 0,
     ref |-> None, forward_cache |-> Nothing, computed |-> Nothing]

\* ResultMetric.update with the mean accumulated without the batch-size weight
ResultMetricUpdateUnweighted(rm, meta, value, bs, mo) ==
    IF rm.is_tensor THEN
        IF is_mean_reduction(meta) THEN
            [rm EXCEPT !.value = @ + value, !.cumulated_batch_size = @ + bs]
        ELSE IF is_max_reduction(meta) THEN
            [rm EXCEPT !.value = MaxOf(@, value)]
        ELSE IF is_min_reduction(meta) THEN
            [rm EXCEPT !.value = MinOf(@, value)]
        ELSE rm
    ELSE [rm EXCEPT !.ref = value, !.forward_cache = mo.forward_cache]

\* ResultMetric.update; mo is the torchmetrics object passed as value (when not a tensor)
ResultMetricUpdate(rm, meta, value, bs, mo) ==
    IF rm.is_tensor THEN
        IF is_mean_reduction(meta) THEN
            [rm EXCEPT !.value = @ + value * bs, !.cumulated_batch_size = @ + bs]
        ELSE IF is_max_reduction(meta) THEN
            [rm EXCEPT !.value = MaxOf(@, value)]
        ELSE IF is_min_reduction(meta) THEN
            [rm EXCEPT !.value = MinOf(@, value)]
        ELSE rm
    ELSE [rm EXCEPT !.ref = value, !.forward_cache = mo.forward_cache]

\* ResultMetric.compute (the unwrapped method)
ResultMetricCompute(rm, meta, mo) ==
    IF rm.is_tensor THEN
        IF is_mean_reduction(meta) THEN Frac(rm.value, rm.cumulated_batch_size)
        ELSE Scalar(rm.value)
    ELSE Scalar(mo.acc)

\* ResultMetric.compute as callers see it: Metric wraps compute so that a
\* _computed that is not None is returned as it is
compute(rm, meta, mo) ==
    IF rm.computed # Nothing THEN rm.computed[1] ELSE ResultMetricCompute(rm, meta, mo)

\* Metric.reset on the registered states, as ResultMetric.reset calls it for a tensor
ResultMetricReset(rm) ==
    IF rm.is_tensor THEN
        [rm EXCEPT !.value = 0, !.cumulated_batch_size = 0, !.computed = Nothing]
    ELSE rm

\* ResultMetric.forward -> Metric.forward: update the accumulated state; when
\* compute_on_step (= is_tensor) additionally save the states, reset, update and
\* compute on this batch alone into _forward_cache, restore the states.
\* _computed is cleared either way.
ResultMetricForward(rm, meta, value, bs, mo) ==
    LET acc == ResultMetricUpdate(rm, meta, value, bs, mo) IN
    IF rm.is_tensor THEN
        LET one == ResultMetricUpdate(ResultMetricReset(rm), meta, value, bs, mo) IN
        [acc EXCEPT !.forward_cache = Some(ResultMetricCompute(one, meta, mo)),
                    !.computed = Nothing]
    ELSE [acc EXCEPT !.computed = Nothing]

----------------------------------------------------------------------------
(* ResultCollection: storage *)

\* the values a dict slot can hold
MetricEntry(meta, is_tensor) ==
    [kind |-> "metric", meta |-> meta, rms |-> [l \in {"_"} |-> ResultMetricNew(is_tensor)]]
NestedEntry(meta, leaves) ==
    [kind |-> "nested", meta |-> meta, rms |-> [l \in leaves |-> ResultMetricNew(TRUE)]]
PlainBool(b) == [kind |-> "plain", ty |-> "bool", b |-> b, i |-> NoIdx]
PlainIdx(i) == [kind |-> "plain", ty |-> (IF i = NoIdx THEN "none" ELSE "int"), b |-> FALSE, i |-> i]

IsMetrics(e) == e.kind \in {"metric", "nested"}

\* f"{fx}.{name}" and, with a dataloader index, f"{fx}.{name}.{dataloader_idx}"
StorageKey(fx, name, dataloader_idx) ==
    IF dataloader_idx = NoIdx THEN <<fx, name>> ELSE <<fx, name, ToString(dataloader_idx)>>

\* fx, with f".{dataloader_idx}" appended when there is a dataloader index
ResetScope(fx, dataloader_idx) ==
    IF dataloader_idx = NoIdx THEN fx ELSE fx \o "." \o ToString(dataloader_idx)

\* key + '.forked' and the like
SideKey(key, what) == Append(key, what)

SideChannels == <<"forked", "logger", "prog_bar", "on_epoch", "dataloader_idx">>

\* ResultCollection.to_result_metric: one ResultMetric per leaf of value, all
\* sharing meta; for a nested value the five side-channel slots are stored too
to_result_metric(its, key, meta, shape, value) ==
    IF shape = "dict" THEN
        (key :> NestedEntry(meta, DOMAIN value))
        @@ (SideKey(key, "forked") :> PlainBool(forked(meta)))
        @@ (SideKey(key, "logger") :> PlainBool(meta.logger))
        @@ (SideKey(key, "prog_bar") :> PlainBool(meta.prog_bar))
        @@ (SideKey(key, "on_epoch") :> PlainBool(meta.on_epoch))
        @@ (SideKey(key, "dataloader_idx") :> PlainIdx(meta.dataloader_idx))
        @@ its
    ELSE (key :> MetricEntry(meta, shape = "tensor")) @@ its

\* the dict's key order after to_result_metric
to_result_metric_order(ord, key, shape) ==
    IF shape = "dict"
    THEN ord \o <<key>> \o [i \in 1..Len(SideChannels) |-> SideKey(key, SideChannels[i])]
    ELSE Append(ord, key)

\* ResultCollection.should_reset_tensors
should_reset_tensors(fx) == current_fx # fx /\ batch_idx \in {NoIdx, 0}

\* the selection of _reset without the comparison of the hook
ResetSelectsAnyScope(e, l, fx, metrics) ==
    metrics = None \/ ((metrics = "True") # e.rms[l].is_tensor)

\* the inner fn of ResultCollection._reset: does it reset this ResultMetric?
\* metrics is "None", "True" or "False"
ResetSelects(e, l, fx, metrics) ==
    LET requested_type == metrics = None \/ ((metrics = "True") # e.rms[l].is_tensor)
        same_fx == fx = None \/ fx = e.meta.fx
    IN requested_type /\ same_fx

\* _reset on one slot with every kind of accumulator taken as requested
ResetEntryEveryKind(e, fx, metrics) ==
    IF ~IsMetrics(e) THEN e
    ELSE [e EXCEPT
            !.rms = [l \in DOMAIN e.rms |->
                        IF ResetSelects(e, l, fx, None) THEN ResultMetricReset(e.rms[l])
                        ELSE e.rms[l]],
            !.meta.has_reset = @ \/ (\E l \in DOMAIN e.rms : ResetSelects(e, l, fx, None))]

\* ResultMetric.reset on one slot: the states of the tensors go back to their
\* defaults and meta.has_reset is set (meta is shared by the leaves of a slot)
ResetEntry(e, fx, metrics) ==
    IF ~IsMetrics(e) THEN e
    ELSE [e EXCEPT
            !.rms = [l \in DOMAIN e.rms |->
                        IF ResetSelects(e, l, fx, metrics) THEN ResultMetricReset(e.rms[l])
                        ELSE e.rms[l]],
            !.meta.has_reset = @ \/ (\E l \in DOMAIN e.rms : ResetSelects(e, l, fx, metrics))]

\* ResultCollection._reset on the slots
ResetItems(its, fx, metrics) == [k \in DOMAIN its |-> ResetEntry(its[k], fx, metrics)]

\* the keys whose ResultMetric.reset _reset calls
ResetKeys(its, fx, metrics) ==
    {k \in DOMAIN its : IsMetrics(its[k])
                        /\ \E l \in DOMAIN its[k].rms : ResetSelects(its[k], l, fx, metrics)}

\* ResultMetric.reset of a torchmetrics-object slot is self.value.reset(): the
\* live object's accumulated state is cleared
ResetObjects(mo, its, fx, metrics) ==
    [a \in DOMAIN mo |->
        IF \E k \in DOMAIN its :
              /\ IsMetrics(its[k])
              /\ \E l \in DOMAIN its[k].rms :
                    /\ ~its[k].rms[l].is_tensor
                    /\ its[k].rms[l].ref = a
                    /\ ResetSelects(its[k], l, fx, metrics)
        THEN [mo[a] EXCEPT !.acc = 0]
        ELSE mo[a]]

\* ResultCollection.update_metrics: forward every leaf, then clear has_reset
update_metrics(its, key, shape, value, bs_arg) ==
    LET bs == IF bs_arg # 0 THEN bs_arg ELSE batch_size
        e == its[key]
        leafval(l) == IF shape = "dict" THEN value[l] ELSE value
        theobj == IF shape = "metric" THEN mobj[value] ELSE [acc |-> 0, forward_cache |-> Nothing]
    IN [its EXCEPT ![key] =
            [e EXCEPT !.rms = [l \in DOMAIN e.rms |->
                                  ResultMetricForward(e.rms[l], e.meta, leafval(l), bs, theobj)],
                      !.meta.has_reset = FALSE]]

----------------------------------------------------------------------------
(* ResultCollection: metric views *)

STEP_SUFFIX == "_step"
EPOCH_SUFFIX == "_epoch"

\* DATALOADER_SUFFIX.format(dataloader_idx)
DataloaderSuffix(dataloader_idx) == "/dataloader_idx_" \o ToString(dataloader_idx)

Last(seq) == seq[Len(seq)]

\* ResultCollection.valid_items: the filter on one (k, v) of the dict
valid_item(k, e) ==
    /\ ~(e.kind = "plain" /\ e.ty \in {"none", "bool"})
    /\ k # <<"extra">>
    /\ ~(e.kind = "metric" /\ e.meta.has_reset)

\* _get_forward_cache / _get_computed_cache on one ResultMetric: the optional
\* value read; reading a missing _forward_cache is an AttributeError
ReadFails(rm, meta, on_step) == on_step /\ meta.on_step /\ rm.forward_cache = Nothing

_get_forward_cache(rm, meta) == IF meta.on_step THEN rm.forward_cache ELSE Nothing

\* the cache Metric.compute's wrapper leaves in _computed
ComputedAfter(rm, meta, mo) ==
    IF rm.computed = Nothing THEN Some(ResultMetricCompute(rm, meta, mo)) ELSE rm.computed

_get_computed_cache(rm, meta, mo) == IF ~meta.on_epoch THEN Nothing ELSE ComputedAfter(rm, meta, mo)

ObjOf(rm) == IF rm.is_tensor \/ rm.ref = None THEN [acc |-> 0, forward_cache |-> Nothing]
             ELSE mobj[rm.ref]

LeafRead(rm, meta, on_step) ==
    IF on_step THEN _get_forward_cache(rm, meta) ELSE _get_computed_cache(rm, meta, ObjOf(rm))

\* apply_to_collection(result_metric, ResultMetric, fn, include_none=False)
\* for a slot: Nothing or Some(value); a nested slot gives the dict of the
\* leaves that are not None, and is empty when none is left
EntryRead(e, on_step) ==
    IF e.kind = "metric" THEN LeafRead(e.rms["_"], e.meta, on_step)
    ELSE LET kept == {l \in DOMAIN e.rms : LeafRead(e.rms[l], e.meta, on_step) # Nothing}
         IN IF kept = {} THEN Nothing
            ELSE Some([l \in kept |-> LeafRead(e.rms[l], e.meta, on_step)[1]])

\* the slot after a read that computes and then clears the accumulated states
EntryAfterReadCleared(e, on_step) ==
    IF on_step \/ ~e.meta.on_epoch THEN e
    ELSE [e EXCEPT !.rms = [l \in DOMAIN e.rms |->
                               [e.rms[l] EXCEPT
                                    !.computed = ComputedAfter(e.rms[l], e.meta, ObjOf(e.rms[l])),
                                    !.value = 0, !.cumulated_batch_size = 0]]]

\* the slot after the read: an epoch read of an on_epoch metric fills _computed
EntryAfterRead(e, on_step) ==
    IF on_step \/ ~e.meta.on_epoch THEN e
    ELSE [e EXCEPT !.rms = [l \in DOMAIN e.rms |->
                               [e.rms[l] EXCEPT !.computed =
                                    ComputedAfter(e.rms[l], e.meta, ObjOf(e.rms[l]))]]]

_to_item(t) == [item |-> t]

ToItems(e, v) == IF e.kind = "metric" THEN _to_item(v) ELSE [l \in DOMAIN v |-> _to_item(v[l])]

\* ResultCollection._extract_metadata
\* a nested slot reads its side channels; the side channels it needs are stored
ExtractFails(its, key, e) ==
    ~IsMetrics(e) /\ \E i \in 1..Len(SideChannels) : SideKey(key, SideChannels[i]) \notin DOMAIN its

_extract_metadata(its, key, e, on_step, suffix) ==
    LET leaf == e.kind = "metric"
        name == IF leaf THEN e.meta.name ELSE Last(key)
        name_forked == IF leaf THEN forked_name(e.meta, on_step)
                       ELSE IF its[SideKey(key, "forked")].b THEN name \o suffix ELSE name
        logger == IF leaf THEN e.meta.logger ELSE its[SideKey(key, "logger")].b
        prog_bar == IF leaf THEN e.meta.prog_bar ELSE its[SideKey(key, "prog_bar")].b
        metric_on_epoch == IF leaf THEN e.meta.on_epoch ELSE its[SideKey(key, "on_epoch")].b
        dataloader_idx == IF leaf THEN e.meta.dataloader_idx
                          ELSE its[SideKey(key, "dataloader_idx")].i
        sfx == IF dataloader_idx # NoIdx THEN DataloaderSuffix(dataloader_idx) ELSE ""
    IN [name |-> name \o sfx, name_forked |-> name_forked \o sfx, logger |-> logger,
        prog_bar |-> prog_bar, metric_on_epoch |-> metric_on_epoch]

EmptyMap == [x \in {} |-> 0]
Put(m, k, v) == (k :> v) @@ m

\* the callback condition read as (training or metric_on_epoch) and not on_step
CallbackTakesStepless(metric_on_epoch, on_step) == (training \/ metric_on_epoch) /\ ~on_step

\* get_metrics: `self.training or metric_on_epoch and not on_step`
CallbackTakes(metric_on_epoch, on_step) == training \/ (metric_on_epoch /\ ~on_step)

\* does the loop of get_metrics emit this slot's metrics?
Emits(k, e, on_step) ==
    /\ valid_item(k, e)
    /\ IsMetrics(e)
    /\ EntryRead(e, on_step) # Nothing

\* one iteration of the loop of ResultCollection.get_metrics over valid_items.
\* st = [callback, pbar, log, items, err]
get_metrics_step(st, key, on_step) ==
    LET e == st.items[key]
        suffix == IF on_step THEN STEP_SUFFIX ELSE EPOCH_SUFFIX
    IN
    IF st.err # None \/ ~valid_item(key, e) THEN st
    ELSE IF ~IsMetrics(e) THEN
        \* a plain value that passes valid_items is not None, so it is not
        \* empty, and _extract_metadata looks its side channels up
        IF ExtractFails(st.items, key, e) THEN [st EXCEPT !.err = "KeyError"]
        ELSE st
    ELSE IF \E l \in DOMAIN e.rms : ReadFails(e.rms[l], e.meta, on_step) THEN
        [st EXCEPT !.err = "AttributeError"]
    ELSE
        LET value == EntryRead(e, on_step)
            st1 == [st EXCEPT !.items[key] = EntryAfterRead(e, on_step)]
        IN
        IF value = Nothing THEN st1
        ELSE
            LET md == _extract_metadata(st.items, key, e, on_step, suffix)
                log1 == IF md.logger THEN Put(st1.log, md.name_forked, value[1]) ELSE st1.log
                cb1 == IF CallbackTakes(md.metric_on_epoch, on_step)
                       THEN Put(Put(st1.callback, md.name, value[1]), md.name_forked, value[1])
                       ELSE st1.callback
                pb1 == IF md.prog_bar THEN Put(st1.pbar, md.name_forked, ToItems(e, value[1]))
                       ELSE st1.pbar
            IN [st1 EXCEPT !.log = log1, !.callback = cb1, !.pbar = pb1]

RECURSIVE get_metrics_loop(_, _, _)
get_metrics_loop(st, i, on_step) ==
    IF i > Len(order) THEN st
    ELSE get_metrics_loop(get_metrics_step(st, order[i], on_step), i + 1, on_step)

\* ResultCollection.get_metrics
get_metrics(on_step) ==
    get_metrics_loop([callback |-> EmptyMap, pbar |-> EmptyMap, log |-> EmptyMap,
                      items |-> items, err |-> None], 1, on_step)

----------------------------------------------------------------------------
(* ResultCollection: serialization *)

\* to_state_dict: _SerializationHelper(**item.__getstate__()), the attributes
\* of the ResultMetric under their names
to_state_dict(rm, meta) ==
    [meta |-> meta, is_tensor |-> rm.is_tensor, value |-> rm.value,
     cumulated_batch_size |-> rm.cumulated_batch_size, ref |-> rm.ref,
     forward_cache |-> rm.forward_cache, computed |-> rm.computed]

\* ResultCollection.state_dict
state_dict(its) ==
    [k \in DOMAIN its |->
        IF IsMetrics(its[k])
        THEN [kind |-> its[k].kind,
              helpers |-> [l \in DOMAIN its[k].rms |-> to_state_dict(its[k].rms[l], its[k].meta)]]
        ELSE its[k]]

\* the inner to_result_metric without the __dict__.update(item)
sd_to_result_metric_fresh(item) == ResultMetricNew(item.is_tensor)

\* the inner to_result_metric of load_from_state_dict:
\* ResultMetric(item["meta"], item["is_tensor"]), then __dict__.update(item)
sd_to_result_metric(item) ==
    [ResultMetricNew(item.is_tensor) EXCEPT
        !.value = item.value, !.cumulated_batch_size = item.cumulated_batch_size,
        !.ref = item.ref, !.forward_cache = item.forward_cache, !.computed = item.computed]

\* re_assign_metric: the live object of the recorded attribute, when there is one
re_assign_metric(rm, meta, metrics) ==
    IF meta.metric_attribute # None /\ meta.metric_attribute \in metrics
    THEN [rm EXCEPT !.ref = meta.metric_attribute]
    ELSE rm

\* ResultCollection.load_from_state_dict into an empty collection
load_from_state_dict(sd, metrics) ==
    [k \in DOMAIN sd |->
        IF IsMetrics(sd[k])
        THEN LET meta == sd[k].helpers[CHOOSE l \in DOMAIN sd[k].helpers : TRUE].meta
             IN [kind |-> sd[k].kind, meta |-> meta,
                 rms |-> [l \in DOMAIN sd[k].helpers |->
                            re_assign_metric(sd_to_result_metric(sd[k].helpers[l]),
                                             sd[k].helpers[l].meta, metrics)]]
        ELSE sd[k]]

----------------------------------------------------------------------------
(* ResultCollection: operations *)

NoRet == [kind |-> "none"]
Raise(e) == [kind |-> "raise", err |-> e]

\* the value of a log call has the shape the key was created with
ShapeFits(c, key) ==
    /\ c.shape = "metric" => c.value \in DOMAIN mobj
    /\ key \in DOMAIN items =>
        /\ (c.shape = "dict") = (items[key].kind = "nested")
        /\ c.shape = "dict" => DOMAIN c.value = DOMAIN items[key].rms
        /\ c.shape # "dict" => items[key].rms["_"].is_tensor = (c.shape = "tensor")

\* log with the on_step check made after the key has been created
LogEffectLateCheck(c) ==
    LET key == StorageKey(c.fx, c.name, c.dataloader_idx)
        fx == ResetScope(c.fx, c.dataloader_idx)
        meta == Metadata(fx, c.name, c.prog_bar, c.logger, c.on_step, c.on_epoch,
                         c.reduce_fx, c.dataloader_idx, c.metric_attribute)
        isnew == key \notin DOMAIN items
        its1 == IF isnew THEN to_result_metric(items, key, meta, c.shape, c.value) ELSE items
        ord1 == IF isnew THEN to_result_metric_order(order, key, c.shape) ELSE order
        doreset == should_reset_tensors(fx)
        its2 == IF doreset THEN ResetItems(its1, fx, "False") ELSE its1
        mo2 == IF doreset THEN ResetObjects(mobj, its1, fx, "False") ELSE mobj
        its3 == update_metrics(its2, key, c.shape, c.value, c.batch_size)
    IN
    IF c.on_step /\ on_epoch_end_reached THEN
        [items |-> its1, order |-> ord1, mobj |-> mobj, current_fx |-> current_fx,
         reset |-> {}, err |-> "RuntimeError"]
    ELSE [items |-> its3, order |-> ord1, mobj |-> mo2, current_fx |-> fx,
          reset |-> IF doreset THEN ResetKeys(its1, fx, "False") ELSE {}, err |-> None]

\* log with the Metadata of the key rebuilt from the flags of every call
LogEffectRebuildsMeta(c) ==
    LET key == StorageKey(c.fx, c.name, c.dataloader_idx)
        fx == ResetScope(c.fx, c.dataloader_idx)
    IN
    IF c.on_step /\ on_epoch_end_reached THEN
        [items |-> items, order |-> order, mobj |-> mobj, current_fx |-> current_fx,
         reset |-> {}, err |-> "RuntimeError"]
    ELSE
        LET meta == Metadata(fx, c.name, c.prog_bar, c.logger, c.on_step, c.on_epoch,
                             c.reduce_fx, c.dataloader_idx, c.metric_attribute)
            isnew == key \notin DOMAIN items
            its1 == IF isnew THEN to_result_metric(items, key, meta, c.shape, c.value)
                    ELSE [items EXCEPT ![key].meta = meta]
            ord1 == IF isnew THEN to_result_metric_order(order, key, c.shape) ELSE order
            doreset == should_reset_tensors(fx)
            its2 == IF doreset THEN ResetItems(its1, fx, "False") ELSE its1
            mo2 == IF doreset THEN ResetObjects(mobj, its1, fx, "False") ELSE mobj
            its3 == update_metrics(its2, key, c.shape, c.value, c.batch_size)
        IN [items |-> its3, order |-> ord1, mobj |-> mo2, current_fx |-> fx,
            reset |-> IF doreset THEN ResetKeys(its1, fx, "False") ELSE {}, err |-> None]

\* ResultCollection.log as a function of the collection: the dict, its order,
\* the keys reset, and the error raised (None when it returns)
LogEffect(c) ==
    LET key == StorageKey(c.fx, c.name, c.dataloader_idx)
        fx == ResetScope(c.fx, c.dataloader_idx)
    IN
    IF c.on_step /\ on_epoch_end_reached THEN
        [items |-> items, order |-> order, mobj |-> mobj, current_fx |-> current_fx,
         reset |-> {}, err |-> "RuntimeError"]
    ELSE
        LET meta == Metadata(fx, c.name, c.prog_bar, c.logger, c.on_step, c.on_epoch,
                             c.reduce_fx, c.dataloader_idx, c.metric_attribute)
            isnew == key \notin DOMAIN items
            its1 == IF isnew THEN to_result_metric(items, key, meta, c.shape, c.value) ELSE items
            ord1 == IF isnew THEN to_result_metric_order(order, key, c.shape) ELSE order
            doreset == should_reset_tensors(fx)
            its2 == IF doreset THEN ResetItems(its1, fx, "False") ELSE its1
            mo2 == IF doreset THEN ResetObjects(mobj, its1, fx, "False") ELSE mobj
            its3 == update_metrics(its2, key, c.shape, c.value, c.batch_size)
        IN [items |-> its3, order |-> ord1, mobj |-> mo2, current_fx |-> fx,
            reset |-> IF doreset THEN ResetKeys(its1, fx, "False") ELSE {}, err |-> None]

\* the history of the values fed to a key: how many, the sum of value *
\* batch size, the sum of the batch sizes, the largest and the smallest value
\* (of the first leaf, when the value is a dict)
NoneFed == [n |-> 0, svb |-> 0, sb |-> 0, mx |-> 0, mn |-> 0]
Fed(h, v, bs) ==
    [n |-> h.n + 1, svb |-> h.svb + v * bs, sb |-> h.sb + bs,
     mx |-> IF h.n = 0 THEN v ELSE MaxOf(h.mx, v),
     mn |-> IF h.n = 0 THEN v ELSE MinOf(h.mn, v)]

FirstLeaf(c) == IF c.shape = "dict" THEN c.value[CHOOSE l \in DOMAIN c.value : TRUE]
                ELSE IF c.shape = "tensor" THEN c.value ELSE 0

\* the histories after an operation that reset the keys rs and then fed key
\* (None: no key) the value v with batch size bs
HistoryAfter(its, rs, key, v, bs) ==
    [k \in {x \in DOMAIN its : IsMetrics(its[x])} |->
        LET before == IF k \in DOMAIN logged /\ k \notin rs THEN logged[k] ELSE NoneFed
        IN IF k = key THEN Fed(before, v, bs) ELSE before]

Log(c) ==
    LET key == StorageKey(c.fx, c.name, c.dataloader_idx)
        eff == LogEffect(c)
        bs == IF c.batch_size # 0 THEN c.batch_size ELSE batch_size
    IN
    /\ ShapeFits(c, key)
    /\ nlogs' = nlogs + 1
    /\ op' = [name |-> "log", key |-> key, fx |-> ResetScope(c.fx, c.dataloader_idx),
              on_step |-> c.on_step]
    /\ items' = eff.items
    /\ order' = eff.order
    /\ mobj' = eff.mobj
    /\ current_fx' = eff.current_fx
    /\ wasReset' = eff.reset
    /\ ret' = IF eff.err = None THEN NoRet ELSE Raise(eff.err)
    /\ logged' = IF eff.err = None
                 THEN HistoryAfter(eff.items, eff.reset, key, FirstLeaf(c), bs)
                 ELSE logged
    /\ prevLogFx' = IF eff.err = None THEN eff.current_fx ELSE prevLogFx
    /\ epochView' = IF eff.err = None THEN Nothing ELSE epochView
    /\ UNCHANGED <<training, on_epoch_end_reached, batch_size, batch_idx>>
    /\ UNCHANGED ckvars

\* the loop sets result.batch_idx = batch_idx
SetBatchIdx(i) ==
    /\ batch_idx # i
    /\ batch_idx' = i
    /\ op' = [name |-> "batch_idx"]
    /\ ret' = NoRet
    /\ wasReset' = {}
    /\ UNCHANGED <<items, order, training, on_epoch_end_reached, current_fx, batch_size,
                   mobj, logged, prevLogFx, epochView, nlogs>>
    /\ UNCHANGED ckvars

\* the on_epoch_end_reached setter
SetOnEpochEndReached(b) ==
    /\ on_epoch_end_reached' = b
    /\ batch_idx' = NoIdx
    /\ op' = [name |-> "on_epoch_end_reached"]
    /\ ret' = NoRet
    /\ wasReset' = {}
    /\ UNCHANGED <<items, order, training, current_fx, batch_size, mobj, logged,
                   prevLogFx, epochView, nlogs>>
    /\ UNCHANGED ckvars

\* ResultCollection.reset(metrics)
Reset(metrics) ==
    /\ items' = ResetItems(items, None, metrics)
    /\ mobj' = ResetObjects(mobj, items, None, metrics)
    /\ on_epoch_end_reached' = FALSE
    /\ batch_idx' = NoIdx
    /\ current_fx' = None
    /\ op' = [name |-> "reset", metrics |-> metrics]
    /\ ret' = NoRet
    /\ wasReset' = ResetKeys(items, None, metrics)
    /\ logged' = HistoryAfter(items, ResetKeys(items, None, metrics), None, 0, 0)
    /\ epochView' = Nothing
    /\ UNCHANGED <<order, training, batch_size, prevLogFx, nlogs>>
    /\ UNCHANGED ckvars

\* ResultCollection.get_batch_metrics (on_step) / get_epoch_metrics (~on_step)
GetMetrics(on_step) ==
    LET st == get_metrics(on_step) IN
    /\ items' = st.items
    /\ op' = [name |-> IF on_step THEN "get_batch_metrics" ELSE "get_epoch_metrics",
              again |-> ~on_step /\ epochView # Nothing]
    /\ ret' = IF st.err # None THEN Raise(st.err)
              ELSE [kind |-> "metrics", callback |-> st.callback, pbar |-> st.pbar,
                    log |-> st.log]
    /\ wasReset' = {}
    /\ epochView' = IF on_step THEN epochView ELSE Some(ret')
    /\ UNCHANGED <<order, training, on_epoch_end_reached, current_fx, batch_size, batch_idx,
                   mobj, logged, prevLogFx, nlogs>>
    /\ UNCHANGED ckvars

\* the module calls one of its torchmetrics objects on a batch: the object
\* accumulates and keeps the batch value in its _forward_cache
MetricObjectForward(a, v) ==
    /\ mobj[a].acc + v <= MaxObjUpdates
    /\ mobj' = [mobj EXCEPT ![a] = [acc |-> @.acc + v, forward_cache |-> Some(Scalar(v))]]
    /\ op' = [name |-> "metric_forward"]
    /\ ret' = NoRet
    /\ wasReset' = {}
    /\ UNCHANGED <<items, order, training, on_epoch_end_reached, current_fx, batch_size,
                   batch_idx, logged, prevLogFx, epochView, nlogs>>
    /\ UNCHANGED ckvars

\* a new ResultCollection(training) loads the state_dict() of this one, with
\* the module's live metric objects
Reload ==
    /\ items # <<>>
    /\ items' = load_from_state_dict(state_dict(items), DOMAIN mobj)
    /\ on_epoch_end_reached' = FALSE
    /\ current_fx' = None
    /\ batch_size' = 1
    /\ batch_idx' = NoIdx
    /\ op' = [name |-> "reload"]
    /\ ret' = NoRet
    /\ wasReset' = {}
    /\ epochView' = Nothing
    /\ UNCHANGED <<order, training, mobj, logged, prevLogFx, nlogs>>
    /\ UNCHANGED ckvars

----------------------------------------------------------------------------
(* CheckpointConnector: file names, paths and checkpoints *)

\* A file name is the sequence of its characters, a path is <<directory,
\* name>>, and the path None is the empty sequence.  A checkpoint is the
\* function from its keys to their values; what a component state
\* (state_dict, callbacks, ...) holds is named by the path of the file it
\* was read from, the empty sequence for the state of a fresh Trainer.
NoPath == <<>>
EmptyCheckpoint == <<>>
Fresh == <<>>

\* trainer.weights_save_path, and a directory that is not it
WEIGHTS == "weights"
ELSEWHERE == "runs"

HPC_NAME_KEY == <<"h", "p", "c", "_", "c", "k", "p", "t", "_">>
CKPT_NAME_KEY == <<"c", "k", "p", "t", "_">>
CKPT_EXT == <<".", "c", "k", "p", "t">>

Digits == <<"0", "1", "2", "3", "4", "5", "6", "7", "8", "9">>
IsDigit(c) == \E i \in 1..10 : Digits[i] = c
DigitValue(c) == (CHOOSE i \in 1..10 : Digits[i] = c) - 1

\* the decimal digits of n >= 0, as an f-string formats an int
RECURSIVE IntToStr(_)
IntToStr(n) == IF n < 10 THEN <<Digits[n + 1]>>
               ELSE IntToStr(n \div 10) \o <<Digits[(n % 10) + 1]>>

\* int(s) of a non-empty string of digits
RECURSIVE StrToIntFrom(_, _)
StrToIntFrom(s, acc) ==
    IF s = <<>> THEN acc ELSE StrToIntFrom(Tail(s), 10 * acc + DigitValue(Head(s)))
StrToInt(s) == StrToIntFrom(s, 0)

\* name_key in x
OccursAt(x, name_key, i) ==
    /\ i + Len(name_key) - 1 <= Len(x)
    /\ SubSeq(x, i, i + Len(name_key) - 1) = name_key
Contains(x, name_key) == \E i \in 1..Len(x) : OccursAt(x, name_key, i)

\* name.split(name_key)[-1]: what follows the last of the occurrences found
\* from the left
RECURSIVE SplitLast(_, _)
SplitLast(name, name_key) ==
    IF ~Contains(name, name_key) THEN name
    ELSE LET i == CHOOSE i \in 1..Len(name) :
                    /\ OccursAt(name, name_key, i)
                    /\ \A j \in 1..(i - 1) : ~OccursAt(name, name_key, j)
         IN SplitLast(SubSeq(name, i + Len(name_key), Len(name)), name_key)

\* re.sub('[^0-9]', '', name)
DigitsOnly(name) == SelectSeq(name, IsDigit)

SetMax(S) == CHOOSE x \in S : \A y \in S : y <= x

\* the base names of fs.listdir(dir_path); a directory without files is
\* listed as empty, as an absent one is reported as holding no checkpoint
listdir(dir_path) == {q[2] : q \in {r \in DOMAIN fs : r[1] = dir_path}}

\* max_ckpt_in_folder: val is NoIdx for None; int('') raises ValueError
max_ckpt_in_folder(dir_path, name_key) ==
    LET files == {x \in listdir(dir_path) : Contains(x, name_key)}
        number(x) == DigitsOnly(SplitLast(x, name_key))
    IN IF files = {} THEN [err |-> None, val |-> NoIdx]
       ELSE IF \E x \in files : number(x) = <<>> THEN [err |-> "ValueError", val |-> NoIdx]
       ELSE [err |-> None, val |-> SetMax({StrToInt(number(x)) : x \in files})]

HpcPath(dir_path, n) == <<dir_path, HPC_NAME_KEY \o IntToStr(n) \o CKPT_EXT>>

\* the property hpc_resume_path
hpc_resume_path ==
    LET max_suffix == max_ckpt_in_folder(WEIGHTS, HPC_NAME_KEY) IN
    IF max_suffix.err # None THEN [err |-> max_suffix.err, path |-> NoPath]
    ELSE IF max_suffix.val # NoIdx
         THEN [err |-> None, path |-> HpcPath(WEIGHTS, max_suffix.val)]
         ELSE [err |-> None, path |-> NoPath]

\* resume_start: the pending path, the holder and the error it ends with
resume_start ==
    LET hpc == hpc_resume_path
        checkpoint_path == IF hpc.path # NoPath THEN hpc.path ELSE resume_checkpoint_path
    IN
    IF hpc.err # None
    THEN [path |-> resume_checkpoint_path, loaded |-> loaded_checkpoint, err |-> hpc.err,
          read |-> FALSE]
    ELSE IF checkpoint_path = NoPath
    THEN [path |-> checkpoint_path, loaded |-> loaded_checkpoint, err |-> None,
          read |-> FALSE]
    ELSE IF checkpoint_path \notin DOMAIN fs
    THEN [path |-> checkpoint_path, loaded |-> loaded_checkpoint,
          err |-> "FileNotFoundError", read |-> FALSE]
    ELSE [path |-> checkpoint_path, loaded |-> fs[checkpoint_path], err |-> None,
          read |-> TRUE]

\* the keys of the outdated schema (KEYS_MAPPING of utilities.upgrade_checkpoint)
DEPRECATED_CHECKPOINT_KEYS ==
    {"checkpoint_callback_best_model_score", "checkpoint_callback_best_model_path",
     "checkpoint_callback_best", "early_stop_callback_wait", "early_stop_callback_patience"}

\* restore_progress with the counters of another checkpoint position
ProgressOfNextStep(checkpoint) ==
    [global_step |-> checkpoint["global_step"] + 1, current_epoch |-> checkpoint["epoch"]]

\* restore_progress: the counters taken from the checkpoint
ProgressOf(checkpoint) ==
    [global_step |-> checkpoint["global_step"], current_epoch |-> checkpoint["epoch"]]

\* dump_checkpoint: has_reached_max_steps (None and 0 are falsy)
has_reached_max_steps ==
    /\ trainer.max_steps # NoIdx
    /\ trainer.max_steps # 0
    /\ trainer.max_steps <= trainer.global_step

\* model.hparams when the model has none, and two values it can hold: one that
\* pickles and one holding an object that does not (a local function)
NoHparams == "no hparams"
PLAIN == "plain"
LOCAL_OBJECT == "local object"
CHECKPOINT_HYPER_PARAMS_KEY == "hyper_parameters"

\* dump_checkpoint with the optimizer and scheduler states attached whatever
\* weights_only says
dump_checkpoint_always_full(weights_only) ==
    LET checkpoint ==
            ("epoch" :> IF has_reached_max_steps THEN trainer.current_epoch
                        ELSE trainer.current_epoch + 1)
            @@ ("global_step" :> trainer.global_step + 1)
            @@ ("pytorch-lightning_version" :> "version")
            @@ ("state_dict" :> trainer.weights)
        full == checkpoint @@ ("callbacks" :> trainer.callbacks)
                           @@ ("optimizer_states" :> trainer.optimizers)
                           @@ ("lr_schedulers" :> trainer.lr_schedulers)
                           @@ ("native_amp_scaling_state" :> trainer.precision)
    IN IF trainer.hparams = NoHparams THEN full
       ELSE full @@ (CHECKPOINT_HYPER_PARAMS_KEY :> trainer.hparams)

\* dump_checkpoint(weights_only)
dump_checkpoint(weights_only) ==
    LET checkpoint ==
            ("epoch" :> IF has_reached_max_steps THEN trainer.current_epoch
                        ELSE trainer.current_epoch + 1)
            @@ ("global_step" :> trainer.global_step + 1)
            @@ ("pytorch-lightning_version" :> "version")
            @@ ("state_dict" :> trainer.weights)
        full == IF weights_only THEN checkpoint
                ELSE checkpoint @@ ("callbacks" :> trainer.callbacks)
                                @@ ("optimizer_states" :> trainer.optimizers)
                                @@ ("lr_schedulers" :> trainer.lr_schedulers)
                                @@ ("native_amp_scaling_state" :> trainer.precision)
    IN IF trainer.hparams = NoHparams THEN full
       ELSE full @@ (CHECKPOINT_HYPER_PARAMS_KEY :> trainer.hparams)

\* restore() with the callback states restored before the model
AfterStepCallbacksFirst(step) ==
    CASE step = "resume_start" -> "restore_datamodule"
      [] step = "restore_datamodule" -> "restore_callbacks"
      [] step = "restore_callbacks" -> "restore_model"
      [] step = "restore_model" -> "restore_training_state"
      [] step = "restore_training_state" -> "restore_progress"
      [] step = "restore_progress" -> "restore_optimizers_and_schedulers"
      [] step = "restore_optimizers_and_schedulers" -> "restore_optimizers"
      [] step = "restore_optimizers" -> "restore_lr_schedulers"
      [] step = "restore_lr_schedulers" -> "resume_end"
      [] OTHER -> "idle"

\* the statement that follows a step of restore(), restore_training_state()
\* and restore_optimizers_and_schedulers() when the step returns normally
AfterStep(step) ==
    CASE step = "resume_start" -> "restore_datamodule"
      [] step = "restore_datamodule" -> "restore_model"
      [] step = "restore_model" -> "restore_callbacks"
      [] step = "restore_callbacks" -> "restore_training_state"
      [] step = "restore_training_state" -> "restore_progress"
      [] step = "restore_progress" -> "restore_optimizers_and_schedulers"
      [] step = "restore_optimizers_and_schedulers" -> "restore_optimizers"
      [] step = "restore_optimizers" -> "restore_lr_schedulers"
      [] step = "restore_lr_schedulers" -> "resume_end"
      [] OTHER -> "idle"

----------------------------------------------------------------------------
(* CheckpointConnector: operations *)

Returned == [kind |-> "none"]

\* no save_checkpoint() or hpc_save() call so far
NoJob == [op |-> "none", n |-> 0]

\* resume_from_checkpoint(path)
ResumeFromCheckpoint(path) ==
    /\ pc = "idle"
    /\ resume_checkpoint_path # path
    /\ resume_checkpoint_path' = path
    /\ ckop' = [name |-> "resume_from_checkpoint"]
    /\ ckret' = Returned
    /\ UNCHANGED <<fs, trainer, loaded_checkpoint, pc, trace, lastLoaded, atCall, caller, ncalls>>
    /\ UNCHANGED <<rcvars, savevars, wvars>>

\* what resume_start does, as a call of its own or as the first step of restore()
ResumeStartEffect(in_restore) ==
    LET r == resume_start IN
    /\ resume_checkpoint_path' = r.path
    /\ loaded_checkpoint' = r.loaded
    /\ lastLoaded' = IF r.read THEN r.loaded ELSE EmptyCheckpoint
    /\ atCall' = IF in_restore THEN atCall ELSE trainer
    /\ caller' = IF in_restore THEN caller ELSE "none"
    /\ trace' = IF r.read THEN <<"read">> ELSE <<>>
    /\ ckop' = [name |-> "resume_start", in_restore |-> in_restore,
                requested |-> resume_checkpoint_path, held |-> loaded_checkpoint]
    /\ ckret' = IF r.err = None THEN Returned ELSE Raise(r.err)
    /\ pc' = IF in_restore /\ r.err = None THEN AfterStep("resume_start") ELSE "idle"
    /\ UNCHANGED <<fs, trainer>>

\* resume_start()
ResumeStart ==
    /\ pc = "idle"
    /\ ncalls < MaxRestores
    /\ ncalls' = ncalls + 1
    /\ ResumeStartEffect(FALSE)
    /\ UNCHANGED <<rcvars, savevars, wvars>>

\* restore(checkpoint_path): the assignment of the path; the steps follow
RestoreUpTo(checkpoint_path, limit) ==
    /\ pc = "idle"
    /\ ncalls < limit
    /\ ncalls' = ncalls + 1
    /\ resume_checkpoint_path' = checkpoint_path
    /\ pc' = "resume_start"
    /\ trace' = <<>>
    /\ lastLoaded' = EmptyCheckpoint
    /\ atCall' = trainer
    /\ caller' = "restore"
    /\ ckop' = [name |-> "restore"]
    /\ ckret' = Returned
    /\ UNCHANGED <<fs, trainer, loaded_checkpoint>>
    /\ UNCHANGED <<rcvars, savevars, wvars>>

Restore(checkpoint_path) == RestoreUpTo(checkpoint_path, MaxRestores)

RestoreResumeStart ==
    /\ pc = "resume_start"
    /\ ResumeStartEffect(TRUE)
    /\ UNCHANGED <<ncalls>>
    /\ UNCHANGED <<rcvars, savevars, wvars>>

\* restore() and the functions it calls, restore_training_state() and
\* restore_optimizers_and_schedulers() with theirs
RestoreStepNames ==
    {"resume_start", "restore_datamodule", "restore_model", "restore_callbacks",
     "restore_training_state", "restore_progress", "restore_optimizers_and_schedulers",
     "restore_optimizers", "restore_lr_schedulers", "resume_end"}

\* the steps of restore() that are called on their own as well
DirectSteps ==
    {"restore_model", "restore_callbacks", "restore_progress",
     "restore_optimizers_and_schedulers"}

\* one of these steps is called on its own, after a resume_end
DirectCall(step) ==
    /\ pc = "idle"
    /\ \/ ckop.name = "resume_end"
       \/ ckop.name \in RestoreStepNames /\ ~ckop.in_restore /\ ckop.name # "resume_start"
    /\ pc' = step
    /\ caller' = "direct"
    /\ atCall' = trainer
    /\ trace' = <<>>
    /\ ckop' = [name |-> "call", step |-> step]
    /\ ckret' = Returned
    /\ UNCHANGED <<fs, trainer, resume_checkpoint_path, loaded_checkpoint, lastLoaded, ncalls>>
    /\ UNCHANGED <<rcvars, savevars, wvars>>

\* a step of restore() that ends normally, with what it invoked
StepDone(step, next, invoked) ==
    /\ pc' = IF caller = "direct" /\ (step \in DirectSteps \ {"restore_optimizers_and_schedulers"}
                                     \/ next = "resume_end")
             THEN "idle" ELSE next
    /\ trace' = trace \o invoked
    /\ ckop' = [name |-> step, in_restore |-> caller = "restore"]
    /\ ckret' = Returned
    /\ UNCHANGED <<fs, resume_checkpoint_path, loaded_checkpoint, lastLoaded, atCall, caller, ncalls>>
    /\ UNCHANGED <<rcvars, savevars, wvars>>

\* a step of restore() that raises: restore() ends there
StepRaised(step, err, invoked) ==
    /\ pc' = "idle"
    /\ trace' = trace \o invoked
    /\ ckop' = [name |-> step, in_restore |-> caller = "restore"]
    /\ ckret' = Raise(err)
    /\ UNCHANGED <<fs, resume_checkpoint_path, loaded_checkpoint, lastLoaded, atCall, caller, ncalls>>
    /\ UNCHANGED <<rcvars, savevars, wvars>>

\* restore_datamodule: the hook is called with the holder as it is
RestoreDatamodule ==
    /\ pc = "restore_datamodule"
    /\ IF trainer.datamodule
       THEN /\ trainer' = [trainer EXCEPT !.datamodule_state =
                                IF loaded_checkpoint = EmptyCheckpoint THEN @
                                ELSE loaded_checkpoint["state_dict"]]
            /\ StepDone("restore_datamodule", AfterStep("restore_datamodule"),
                        <<"datamodule">>)
       ELSE /\ UNCHANGED trainer
            /\ StepDone("restore_datamodule", AfterStep("restore_datamodule"), <<>>)

\* restore_model
RestoreModel ==
    /\ pc = "restore_model"
    /\ IF trainer.plugin_restores_model \/ loaded_checkpoint = EmptyCheckpoint
       THEN /\ UNCHANGED trainer
            /\ StepDone("restore_model", AfterStep("restore_model"), <<>>)
       ELSE /\ trainer' = [trainer EXCEPT !.weights = loaded_checkpoint["state_dict"]]
            /\ StepDone("restore_model", AfterStep("restore_model"), <<"model">>)

\* restore_callbacks
RestoreCallbacks ==
    /\ pc = "restore_callbacks"
    /\ IF loaded_checkpoint = EmptyCheckpoint
       THEN /\ UNCHANGED trainer
            /\ StepDone("restore_callbacks", AfterStep("restore_callbacks"), <<>>)
       ELSE IF DOMAIN loaded_checkpoint \cap DEPRECATED_CHECKPOINT_KEYS # {}
       THEN /\ UNCHANGED trainer
            /\ StepRaised("restore_callbacks", "ValueError", <<>>)
       ELSE /\ trainer' = [trainer EXCEPT !.callbacks =
                                IF "callbacks" \in DOMAIN loaded_checkpoint
                                THEN loaded_checkpoint["callbacks"] ELSE @]
            /\ StepDone("restore_callbacks", AfterStep("restore_callbacks"),
                        <<"callbacks">>)

\* restore_training_state up to the precision plugin's hook
RestoreTrainingState ==
    /\ pc = "restore_training_state"
    /\ IF loaded_checkpoint = EmptyCheckpoint
       THEN /\ UNCHANGED trainer
            /\ StepDone("restore_training_state", "resume_end", <<>>)
       ELSE /\ trainer' = [trainer EXCEPT !.precision =
                                IF "native_amp_scaling_state" \in DOMAIN loaded_checkpoint
                                THEN loaded_checkpoint["native_amp_scaling_state"] ELSE @]
            /\ StepDone("restore_training_state", AfterStep("restore_training_state"),
                        <<"precision">>)

\* the mid-epoch check without the accumulation factor
mid_epoch_warning_unscaled(global_step) ==
    /\ trainer.num_training_batches # 0
    /\ global_step % trainer.num_training_batches > 1

\* restore_progress: the mid-epoch check. expected_steps is the fraction
\* num_training_batches / n_accum, and global_step % expected_steps > 1 is
\* computed here with both sides multiplied by n_accum
mid_epoch_warning(global_step) ==
    LET n_accum == IF trainer.accumulate_grad_batches = NoIdx THEN 1
                   ELSE trainer.accumulate_grad_batches
    IN  /\ trainer.num_training_batches # 0
        /\ (global_step * n_accum) % trainer.num_training_batches > n_accum

MID_EPOCH_WARNING == "mid-epoch warning"

\* restore_progress: the counters are assigned, then max_epochs is checked,
\* then the mid-epoch warning is given
RestoreProgress ==
    /\ pc = "restore_progress"
    /\ IF loaded_checkpoint = EmptyCheckpoint
       THEN /\ UNCHANGED trainer
            /\ StepDone("restore_progress", AfterStep("restore_progress"), <<>>)
       ELSE LET progress == ProgressOf(loaded_checkpoint) IN
            /\ trainer' = [trainer EXCEPT !.global_step = progress.global_step,
                                          !.current_epoch = progress.current_epoch]
            /\ IF trainer.max_epochs # NoIdx /\ progress.current_epoch > trainer.max_epochs
               THEN StepRaised("restore_progress", "MisconfigurationException",
                               <<"progress">>)
               ELSE StepDone("restore_progress", AfterStep("restore_progress"),
                             IF mid_epoch_warning(progress.global_step)
                             THEN <<"progress", MID_EPOCH_WARNING>>
                             ELSE <<"progress">>)

\* restore_optimizers_and_schedulers up to its validation
RestoreOptimizersAndSchedulers ==
    /\ pc = "restore_optimizers_and_schedulers"
    /\ UNCHANGED trainer
    /\ IF trainer.plugin_restores_optimizers \/ loaded_checkpoint = EmptyCheckpoint
       THEN StepDone("restore_optimizers_and_schedulers", "resume_end", <<>>)
       ELSE IF \/ "optimizer_states" \notin DOMAIN loaded_checkpoint
               \/ "lr_schedulers" \notin DOMAIN loaded_checkpoint
       THEN StepRaised("restore_optimizers_and_schedulers", "KeyError", <<>>)
       ELSE StepDone("restore_optimizers_and_schedulers",
                     AfterStep("restore_optimizers_and_schedulers"), <<>>)

\* restore_optimizers
RestoreOptimizers ==
    /\ pc = "restore_optimizers"
    /\ IF trainer.plugin_restores_optimizers \/ loaded_checkpoint = EmptyCheckpoint
       THEN /\ UNCHANGED trainer
            /\ StepDone("restore_optimizers", AfterStep("restore_optimizers"), <<>>)
       ELSE /\ trainer' = [trainer EXCEPT !.optimizers = loaded_checkpoint["optimizer_states"]]
            /\ StepDone("restore_optimizers", AfterStep("restore_optimizers"),
                        <<"optimizers">>)

\* restore_lr_schedulers
RestoreLrSchedulers ==
    /\ pc = "restore_lr_schedulers"
    /\ IF trainer.plugin_restores_optimizers \/ loaded_checkpoint = EmptyCheckpoint
       THEN /\ UNCHANGED trainer
            /\ StepDone("restore_lr_schedulers", AfterStep("restore_lr_schedulers"), <<>>)
       ELSE /\ trainer' = [trainer EXCEPT !.lr_schedulers = loaded_checkpoint["lr_schedulers"]]
            /\ StepDone("restore_lr_schedulers", AfterStep("restore_lr_schedulers"),
                        <<"lr_schedulers">>)

\* resume_end with the holder left as it is
resume_end_keeping_holder == [path |-> NoPath, loaded |-> loaded_checkpoint]

\* resume_end: the pending path and the holder it leaves
resume_end == [path |-> NoPath, loaded |-> EmptyCheckpoint]

\* what resume_end does
ResumeEndEffect(in_restore) ==
    /\ resume_checkpoint_path' = resume_end.path
    /\ loaded_checkpoint' = resume_end.loaded
    /\ trace' = trace \o <<"end">>
    /\ pc' = "idle"
    /\ ckop' = [name |-> "resume_end", in_restore |-> in_restore]
    /\ ckret' = Returned
    /\ UNCHANGED <<fs, trainer, lastLoaded, atCall, caller, ncalls>>
    /\ UNCHANGED <<rcvars, savevars, wvars>>

\* resume_end as the last step of restore()
RestoreResumeEnd ==
    /\ pc = "resume_end"
    /\ ResumeEndEffect(TRUE)

\* resume_end() after a resume_start() of its own
ResumeEnd ==
    /\ pc = "idle"
    /\ ckop.name = "resume_start"
    /\ ResumeEndEffect(FALSE)

\* history: did restore() just return normally, having read a checkpoint?
RestoreReturned ==
    /\ pc = "idle"
    /\ ckop.name = "resume_end"
    /\ ckop.in_restore
    /\ lastLoaded # EmptyCheckpoint

\* dump_checkpoint(weights_only)
DumpCheckpoint(weights_only) ==
    /\ pc = "idle"
    /\ ckop.name # "dump_checkpoint"
    /\ ckop' = [name |-> "dump_checkpoint", weights_only |-> weights_only,
                after_restore |-> RestoreReturned]
    /\ ckret' = [kind |-> "checkpoint", value |-> dump_checkpoint(weights_only)]
    /\ UNCHANGED <<fs, trainer, resume_checkpoint_path, loaded_checkpoint, pc, trace,
                   lastLoaded, atCall, caller, ncalls>>
    /\ UNCHANGED <<rcvars, savevars, wvars>>

\* the key under which the on_hpc_save hook of a model stores what it adds
HPC_HOOK_KEY == "hpc_hook"

\* pickling fails on an object that cannot be pickled
Unpicklable(checkpoint) ==
    \E k \in DOMAIN checkpoint \cap {CHECKPOINT_HYPER_PARAMS_KEY, HPC_HOOK_KEY} :
        checkpoint[k] = LOCAL_OBJECT

\* the file an atomic write fills before it renames it to the path
TEMP == "tmp"
TempOf(filepath) == <<TEMP, filepath[2]>>

\* the content of a file whose write was cut short
PARTIAL == ("partial" :> TRUE)

SaveStages == {"serialize", "write_temp", "finish_temp", "rename", "hpc_retry"}

\* hpc_save with the index of the newest file reused
hpc_save_filepath_reused(folderpath) ==
    LET max_suffix == max_ckpt_in_folder(folderpath, CKPT_NAME_KEY)
        ckpt_number == IF max_suffix.val # NoIdx THEN max_suffix.val ELSE 1
    IN [err |-> max_suffix.err,
        filepath |-> IF max_suffix.err # None THEN NoPath
                     ELSE HpcPath(folderpath, ckpt_number)]

\* hpc_save: the path of the new file, from max_ckpt_in_folder(folderpath)
hpc_save_filepath(folderpath) ==
    LET max_suffix == max_ckpt_in_folder(folderpath, CKPT_NAME_KEY)
        ckpt_number == (IF max_suffix.val # NoIdx THEN max_suffix.val ELSE 0) + 1
    IN [err |-> max_suffix.err,
        filepath |-> IF max_suffix.err # None THEN NoPath
                     ELSE HpcPath(folderpath, ckpt_number)]

\* get_max_ckpt_path_from_folder(folder_path)
get_max_ckpt_path_from_folder(folder_path) ==
    LET max_suffix == max_ckpt_in_folder(folder_path, CKPT_NAME_KEY)
        ckpt_number == IF max_suffix.val # NoIdx THEN max_suffix.val ELSE 0
    IN [err |-> max_suffix.err,
        path |-> IF max_suffix.err # None THEN NoPath ELSE HpcPath(folder_path, ckpt_number)]

\* hpc_save: the checkpoint handed to atomic_save, after model.on_hpc_save
hpc_save_checkpoint ==
    IF trainer.on_hpc_save = "nothing" THEN dump_checkpoint(FALSE)
    ELSE dump_checkpoint(FALSE) @@ (HPC_HOOK_KEY :> trainer.on_hpc_save)

\* hpc_save, the except clause: the checkpoint of the second atomic_save,
\* here with nothing removed
retried_checkpoint_unchanged(checkpoint) == checkpoint

\* hpc_save, the except clause: the checkpoint of the second atomic_save
retried_checkpoint(checkpoint) ==
    [k \in DOMAIN checkpoint \ {CHECKPOINT_HYPER_PARAMS_KEY} |-> checkpoint[k]]

\* save_checkpoint(filepath, weights_only) up to the write
SaveCheckpoint(filepath, weights_only) ==
    /\ pc = "idle"
    /\ job.n < MaxSaves
    /\ job' = [op |-> "save_checkpoint", n |-> job.n + 1, filepath |-> filepath,
               weights_only |-> weights_only, checkpoint |-> dump_checkpoint(weights_only),
               attempts |-> <<>>, listed |-> DOMAIN fs, expected |-> NoPath,
               warnings |-> Len(warned),
               previous |-> IF filepath \in DOMAIN fs THEN <<fs[filepath]>> ELSE <<>>]
    /\ pc' = "serialize"
    /\ ckop' = [name |-> "save_checkpoint"]
    /\ ckret' = Returned
    /\ UNCHANGED <<fs, trainer, resume_checkpoint_path, loaded_checkpoint, trace,
                   lastLoaded, atCall, caller, ncalls, written, warned>>
    /\ UNCHANGED <<rcvars, wvars>>

\* hpc_save(folderpath, logger) up to the first write
HpcSave(folderpath) ==
    LET f == hpc_save_filepath(folderpath) IN
    /\ pc = "idle"
    /\ job.n < MaxSaves
    /\ job' = [op |-> "hpc_save", n |-> job.n + 1, filepath |-> f.filepath,
               weights_only |-> FALSE, checkpoint |-> hpc_save_checkpoint,
               attempts |-> <<>>, listed |-> DOMAIN fs,
               expected |-> get_max_ckpt_path_from_folder(folderpath).path,
               warnings |-> Len(warned),
               previous |-> IF f.filepath \in DOMAIN fs THEN <<fs[f.filepath]>> ELSE <<>>]
    /\ pc' = IF f.err = None THEN "serialize" ELSE "idle"
    /\ ckop' = [name |-> "hpc_save", folderpath |-> folderpath]
    /\ ckret' = IF f.err = None THEN Returned ELSE Raise(f.err)
    /\ UNCHANGED <<fs, trainer, resume_checkpoint_path, loaded_checkpoint, trace,
                   lastLoaded, atCall, caller, ncalls, written, warned>>
    /\ UNCHANGED <<rcvars, wvars>>

\* the write of save_checkpoint and hpc_save, first part: the checkpoint is
\* pickled; a failure ends save_checkpoint and the second attempt of hpc_save,
\* and takes the first attempt of hpc_save to its except clause
AtomicSaveSerialize ==
    /\ pc = "serialize"
    /\ job' = [job EXCEPT !.attempts = Append(@, [checkpoint |-> job.checkpoint,
                                                   filepath |-> job.filepath])]
    /\ IF Unpicklable(job.checkpoint)
       THEN /\ pc' = IF job.op = "hpc_save" /\ job.attempts = <<>> THEN "hpc_retry" ELSE "idle"
            /\ ckret' = IF job.op = "hpc_save" /\ job.attempts = <<>> THEN Returned
                        ELSE Raise("AttributeError")
       ELSE /\ pc' = "write_temp"
            /\ ckret' = Returned
    /\ ckop' = [name |-> "atomic_save", of |-> job.op, attempt |-> Len(job.attempts) + 1]
    /\ UNCHANGED <<fs, trainer, resume_checkpoint_path, loaded_checkpoint, trace,
                   lastLoaded, atCall, caller, ncalls, written, warned>>
    /\ UNCHANGED <<rcvars, wvars>>

\* hpc_save, the except clause: the key is deleted and the warning emitted
HpcSaveRetry ==
    /\ pc = "hpc_retry"
    /\ job' = [job EXCEPT !.checkpoint = retried_checkpoint(@)]
    /\ warned' = Append(warned, "hyper_parameters dropped")
    /\ pc' = "serialize"
    /\ ckop' = [name |-> "hpc_save_retry"]
    /\ ckret' = Returned
    /\ UNCHANGED <<fs, trainer, resume_checkpoint_path, loaded_checkpoint, trace,
                   lastLoaded, atCall, caller, ncalls, written>>
    /\ UNCHANGED <<rcvars, wvars>>

\* the write with the final path opened and filled in place
WriteTargetInPlace(filepath) == filepath

\* the write: the file that is opened and filled
WriteTarget(filepath) == TempOf(filepath)

\* the write, second part: the file is opened and the first bytes are in it
AtomicSaveWriteTemp ==
    /\ pc = "write_temp"
    /\ fs' = [q \in DOMAIN fs \cup {WriteTarget(job.filepath)} |->
                 IF q = WriteTarget(job.filepath) THEN PARTIAL ELSE fs[q]]
    /\ pc' = "finish_temp"
    /\ ckop' = [name |-> "atomic_save", of |-> job.op, attempt |-> Len(job.attempts)]
    /\ ckret' = Returned
    /\ UNCHANGED <<trainer, resume_checkpoint_path, loaded_checkpoint, trace,
                   lastLoaded, atCall, caller, ncalls, job, written, warned>>
    /\ UNCHANGED <<rcvars, wvars>>

\* the write, third part: the last bytes are in the file
AtomicSaveFinishTemp ==
    /\ pc = "finish_temp"
    /\ fs' = [fs EXCEPT ![WriteTarget(job.filepath)] = job.checkpoint]
    /\ pc' = "rename"
    /\ ckop' = [name |-> "atomic_save", of |-> job.op, attempt |-> Len(job.attempts)]
    /\ ckret' = Returned
    /\ UNCHANGED <<trainer, resume_checkpoint_path, loaded_checkpoint, trace,
                   lastLoaded, atCall, caller, ncalls, job, written, warned>>
    /\ UNCHANGED <<rcvars, wvars>>

\* the write, last part: the file takes the place of the path; the call returns
AtomicSaveRename ==
    /\ pc = "rename"
    /\ fs' = [q \in (DOMAIN fs \ {TempOf(job.filepath)}) \cup {job.filepath} |->
                 IF q = job.filepath THEN fs[WriteTarget(job.filepath)] ELSE fs[q]]
    /\ written' = Append(written, [op |-> job.op, filepath |-> job.filepath,
                                   weights_only |-> job.weights_only])
    /\ pc' = "idle"
    /\ ckop' = [name |-> job.op, done |-> TRUE]
    /\ ckret' = IF job.op = "hpc_save" THEN [kind |-> "path", value |-> job.filepath]
                ELSE Returned
    /\ UNCHANGED <<trainer, resume_checkpoint_path, loaded_checkpoint, trace,
                   lastLoaded, atCall, caller, ncalls, job, warned>>
    /\ UNCHANGED <<rcvars, wvars>>

\* the process is killed during save_checkpoint or hpc_save
Crash ==
    /\ pc \in SaveStages
    /\ pc' = "crashed"
    /\ ckop' = [name |-> "crash", at |-> pc]
    /\ ckret' = Returned
    /\ UNCHANGED <<fs, trainer, resume_checkpoint_path, loaded_checkpoint, trace,
                   lastLoaded, atCall, caller, ncalls, job, written, warned>>
    /\ UNCHANGED <<rcvars, wvars>>

\* the workers of a distributed run, each with a connector of its own
Workers == 1..NumWorkers

WorkersIdle ==
    /\ wpc = [w \in Workers |-> "idle"]
    /\ wtrace = [w \in Workers |-> <<>>]

\* the steps of restore() that can raise
RaisingSteps ==
    {"resume_start", "restore_callbacks", "restore_progress",
     "restore_optimizers_and_schedulers"}

\* resume_end without a barrier
resume_end_collectives_none == <<>>

\* resume_end: the collective calls it makes once path and holder are cleared
resume_end_collectives == <<"barrier">>

\* a worker calls restore()
WorkerRestore(w) ==
    /\ wpc[w] = "idle"
    /\ wpc' = [wpc EXCEPT ![w] = "resume_start"]
    /\ UNCHANGED <<wtrace, solovars, rcvars>>

\* a worker runs a step of restore() before resume_end, and the step returns
WorkerStep(w) ==
    /\ wpc[w] \notin {"idle", "resume_end", "barrier", "returned", "raised"}
    /\ wpc' = [wpc EXCEPT ![w] = AfterStep(wpc[w])]
    /\ wtrace' = [wtrace EXCEPT ![w] = Append(@, wpc[w])]
    /\ UNCHANGED <<solovars, rcvars>>

\* a worker runs a step of restore() that raises: its restore() ends there
WorkerRaise(w) ==
    /\ wpc[w] \in RaisingSteps
    /\ wpc' = [wpc EXCEPT ![w] = "raised"]
    /\ wtrace' = [wtrace EXCEPT ![w] = Append(@, wpc[w])]
    /\ UNCHANGED <<solovars, rcvars>>

\* a worker runs resume_end: it clears path and holder and enters the barrier
WorkerResumeEnd(w) ==
    /\ wpc[w] = "resume_end"
    /\ wpc' = [wpc EXCEPT ![w] = IF resume_end_collectives = <<>> THEN "returned"
                                  ELSE resume_end_collectives[1]]
    /\ wtrace' = [wtrace EXCEPT ![w] = Append(@, "resume_end") \o resume_end_collectives]
    /\ UNCHANGED <<solovars, rcvars>>

\* the barrier lets a worker go once every worker has entered it; resume_end
\* and restore() return
BarrierRelease(w) ==
    /\ wpc[w] = "barrier"
    /\ \A v \in Workers : wpc[v] \in {"barrier", "returned"}
    /\ wpc' = [wpc EXCEPT ![w] = "returned"]
    /\ UNCHANGED <<wtrace, solovars, rcvars>>

\* the connector of a fresh Trainer over an empty file system
CKIdle ==
    /\ fs = <<>>
    /\ trainer = [global_step |-> 0, current_epoch |-> 0, max_epochs |-> NoIdx,
                  max_steps |-> NoIdx, plugin_restores_model |-> FALSE,
                  plugin_restores_optimizers |-> FALSE, datamodule |-> FALSE,
                  weights |-> Fresh, callbacks |-> Fresh, precision |-> Fresh,
                  optimizers |-> Fresh, lr_schedulers |-> Fresh, datamodule_state |-> Fresh,
                  hparams |-> NoHparams, on_hpc_save |-> "nothing",
                     num_training_batches |-> 0, accumulate_grad_batches |-> NoIdx]
    /\ resume_checkpoint_path = NoPath
    /\ loaded_checkpoint = EmptyCheckpoint
    /\ pc = "idle"
    /\ trace = <<>>
    /\ ckop = [name |-> "init"]
    /\ ckret = Returned
    /\ lastLoaded = EmptyCheckpoint
    /\ atCall = trainer
    /\ caller = "none"
    /\ ncalls = 0
    /\ job = NoJob
    /\ written = <<>>
    /\ warned = <<>>
    /\ WorkersIdle

----------------------------------------------------------------------------
(* The loop around a ResultCollection, and the values it logs *)

Hooks == {"training_step", "validation_step"}
MetricAttrs == {"accuracy"}
Reductions == {"mean", "max", "min"}

\* the arguments of one log call
Call(fx, name, shape, value, prog_bar, logger, on_step, on_epoch, reduce_fx, dataloader_idx, bs, metric_attribute) ==
    [fx |-> fx, name |-> name, shape |-> shape, value |-> value, prog_bar |-> prog_bar,
     logger |-> logger, on_step |-> on_step, on_epoch |-> on_epoch,
     reduce_fx |-> reduce_fx, dataloader_idx |-> dataloader_idx, batch_size |-> bs,
     metric_attribute |-> metric_attribute]

InitRC ==
    /\ items = <<>>
    /\ order = <<>>
    /\ training \in BOOLEAN
    /\ on_epoch_end_reached = FALSE
    /\ current_fx = None
    /\ batch_size = 1
    /\ batch_idx = NoIdx
    /\ mobj = [a \in MetricAttrs |-> [acc |-> 0, forward_cache |-> Nothing]]
    /\ op = [name |-> "init"]
    /\ ret = NoRet
    /\ logged = <<>>
    /\ wasReset = {}
    /\ prevLogFx = None
    /\ epochView = Nothing
    /\ nlogs = 0

\* accumulation: one tensor name under two hooks, values of both signs, two
\* batch sizes (0 stands for no batch_size argument), every reduction
AccCalls ==
    {Call(fx, "loss", "tensor", v, FALSE, TRUE, FALSE, TRUE, r, NoIdx, bs, None) :
        fx \in Hooks, v \in {0 - 1, 2}, r \in Reductions, bs \in {0, 2}}

NextAcc ==
    \/ \E c \in AccCalls : nlogs < MaxAccLogs /\ Log(c)
    \/ \E i \in 0..MaxBatchIdx : SetBatchIdx(i)
    \/ \E m \in {None, "True", "False"} : Reset(m)
    \/ GetMetrics(FALSE)

InitAcc == InitRC /\ training /\ CKIdle

SpecAcc == InitAcc /\ [][NextAcc]_vars

\* reset scoping: a tensor, a torchmetrics object and a dict of tensors, under
\* two hooks and without or with a dataloader index, on_step or not
DictValue == [l \in {"a", "b"} |-> IF l = "a" THEN 1 ELSE 2]

Scopes == {<<"training_step", NoIdx>>, <<"validation_step", 0>>, <<"validation_step", 1>>}

ScopeCalls ==
    {Call(sc[1], "loss", "tensor", 2, FALSE, TRUE, FALSE, TRUE, "mean", sc[2], 0, None) :
        sc \in Scopes}
    \cup {Call(sc[1], "acc", "metric", a, FALSE, TRUE, FALSE, TRUE, "mean", sc[2], 0, a) :
        sc \in Scopes, a \in MetricAttrs}
    \cup {Call(sc[1], "pair", "dict", DictValue, FALSE, TRUE, FALSE, TRUE, "mean", sc[2], 0, None) :
        sc \in Scopes}

NextScope ==
    \/ \E c \in ScopeCalls : nlogs < MaxScopeLogs /\ Log(c)
    \/ \E i \in 0..MaxBatchIdx : SetBatchIdx(i)
    \/ \E m \in {None, "True", "False"} : Reset(m)
    \/ \E a \in MetricAttrs : MetricObjectForward(a, 1)
    \/ Reload

InitScope == InitRC /\ training /\ CKIdle

SpecScope == InitScope /\ [][NextScope]_vars

\* views: a tensor logged under two hooks (so that display names are shared)
\* and with a dataloader index, a dict of tensors without and with a
\* dataloader index,
\* with three settings of (prog_bar, logger, on_step, on_epoch): epoch only
\* for the logger, epoch only for the progress bar, forked for the progress bar
ViewScopes == {<<"training_step", NoIdx>>, <<"validation_step", NoIdx>>,
               <<"validation_step", 0>>}

ViewFlags == {<<FALSE, TRUE, FALSE, TRUE>>, <<TRUE, FALSE, FALSE, TRUE>>,
              <<TRUE, FALSE, TRUE, TRUE>>}

ViewCalls ==
    {Call(sc[1], "loss", "tensor", IF sc[1] = "training_step" THEN 2 ELSE 1,
          f[1], f[2], f[3], f[4], "mean", sc[2], 0, None) :
        sc \in ViewScopes, f \in ViewFlags}
    \cup {Call(sc[1], "pair", "dict", DictValue, f[1], f[2], f[3], f[4], "mean", sc[2], 0, None) :
        sc \in ViewScopes \ {<<"validation_step", NoIdx>>}, f \in ViewFlags}

NextView ==
    \/ \E c \in ViewCalls : nlogs < MaxViewLogs /\ Log(c)
    \/ \E b \in BOOLEAN : SetOnEpochEndReached(b)
    \/ Reset(None)
    \/ \E s \in BOOLEAN : GetMetrics(s)

InitView == InitRC /\ CKIdle

SpecView == InitView /\ [][NextView]_vars

\* checkpoint files: the rotation files hpc_ckpt_<i>.ckpt of the weights
\* directory, an unrelated file and a file with the rotation prefix and no
\* index next to them, and a checkpoint in another directory
OTHER_NAME == <<"o", "t", "h", "e", "r", "_", "2", ".", "c", "k", "p", "t">>
BEST_NAME == HPC_NAME_KEY \o <<"b", "e", "s", "t">> \o CKPT_EXT
MODEL_NAME == <<"m", "o", "d", "e", "l">> \o CKPT_EXT
MISSING_NAME == <<"m", "i", "s", "s", "i", "n", "g">> \o CKPT_EXT

RotationFiles == {HpcPath(WEIGHTS, i) : i \in 1..MaxHpcIndex}

Listings ==
    {R \cup X : R \in SUBSET RotationFiles,
                X \in {{}, {<<WEIGHTS, OTHER_NAME>>}, {<<WEIGHTS, BEST_NAME>>}}}

\* the paths a caller asks to resume from
RequestedPaths ==
    {NoPath, <<ELSEWHERE, MODEL_NAME>>, <<ELSEWHERE, MISSING_NAME>>, HpcPath(WEIGHTS, 1)}

\* the position a stored checkpoint was saved at
EpochOf(path) ==
    IF path \in RotationFiles THEN StrToInt(DigitsOnly(SplitLast(path[2], HPC_NAME_KEY)))
    ELSE 3
GlobalStepOf(path) == 2 * EpochOf(path) + 1

\* a stored checkpoint: a full one as dump_checkpoint() writes it, one of
\* dump_checkpoint(weights_only=True), or a full one of the outdated schema
StoredCheckpoint(path, kind) ==
    LET weights == ("epoch" :> EpochOf(path)) @@ ("global_step" :> GlobalStepOf(path))
                   @@ ("pytorch-lightning_version" :> "version")
                   @@ ("state_dict" :> path)
        full == weights @@ ("callbacks" :> path) @@ ("optimizer_states" :> path)
                        @@ ("lr_schedulers" :> path)
                        @@ ("native_amp_scaling_state" :> path)
    IN CASE kind = "weights_only" -> weights
         [] kind = "deprecated" -> full @@ ("checkpoint_callback_best" :> 1)
         [] OTHER -> full

CheckpointKinds == {"full", "weights_only", "deprecated"}

InitCK ==
    /\ \E files \in Listings, kind \in CheckpointKinds :
          fs = [path \in files \cup {<<ELSEWHERE, MODEL_NAME>>} |-> StoredCheckpoint(path, kind)]
    /\ \E max_epochs \in {NoIdx, 2}, max_steps \in {NoIdx, 0, 3},
          plugin_restores_model \in BOOLEAN, plugin_restores_optimizers \in BOOLEAN,
          datamodule \in BOOLEAN :
          trainer = [global_step |-> 0, current_epoch |-> 0, max_epochs |-> max_epochs,
                     max_steps |-> max_steps,
                     plugin_restores_model |-> plugin_restores_model,
                     plugin_restores_optimizers |-> plugin_restores_optimizers,
                     datamodule |-> datamodule,
                     weights |-> Fresh, callbacks |-> Fresh, precision |-> Fresh,
                     optimizers |-> Fresh, lr_schedulers |-> Fresh,
                     datamodule_state |-> Fresh,
                     hparams |-> NoHparams, on_hpc_save |-> "nothing",
                     num_training_batches |-> 0, accumulate_grad_batches |-> NoIdx]
    /\ resume_checkpoint_path = NoPath
    /\ loaded_checkpoint = EmptyCheckpoint
    /\ pc = "idle"
    /\ trace = <<>>
    /\ ckop = [name |-> "init"]
    /\ ckret = Returned
    /\ lastLoaded = EmptyCheckpoint
    /\ atCall = trainer
    /\ caller = "none"
    /\ ncalls = 0
    /\ job = NoJob
    /\ written = <<>>
    /\ warned = <<>>
    /\ WorkersIdle

NextCK ==
    \/ \E path \in RequestedPaths : ResumeFromCheckpoint(path)
    \/ ResumeStart
    \/ ResumeEnd
    \/ \E path \in RequestedPaths : Restore(path)
    \/ RestoreResumeStart
    \/ RestoreDatamodule
    \/ RestoreModel
    \/ RestoreCallbacks
    \/ RestoreTrainingState
    \/ RestoreProgress
    \/ RestoreOptimizersAndSchedulers
    \/ RestoreOptimizers
    \/ RestoreLrSchedulers
    \/ RestoreResumeEnd
    \/ \E weights_only \in BOOLEAN : DumpCheckpoint(weights_only)

InitConnector == InitCK /\ InitRC /\ training

SpecCK == InitConnector /\ [][NextCK]_vars

----------------------------------------------------------------------------
(* The holder: restore(), resume_start and resume_end, and the restore
   functions called on their own afterwards *)

HolderListings == {{}, {HpcPath(WEIGHTS, 1)}}

HolderPaths == {NoPath, <<ELSEWHERE, MODEL_NAME>>, <<ELSEWHERE, MISSING_NAME>>}

InitHolder ==
    /\ \E files \in HolderListings, kind \in CheckpointKinds :
          fs = [path \in files \cup {<<ELSEWHERE, MODEL_NAME>>} |-> StoredCheckpoint(path, kind)]
    /\ \E max_epochs \in {NoIdx, 2}, plugin_restores_optimizers \in BOOLEAN :
          trainer = [global_step |-> 0, current_epoch |-> 0, max_epochs |-> max_epochs,
                     max_steps |-> NoIdx, plugin_restores_model |-> FALSE,
                     plugin_restores_optimizers |-> plugin_restores_optimizers,
                     datamodule |-> FALSE,
                     weights |-> Fresh, callbacks |-> Fresh, precision |-> Fresh,
                     optimizers |-> Fresh, lr_schedulers |-> Fresh,
                     datamodule_state |-> Fresh,
                     hparams |-> NoHparams, on_hpc_save |-> "nothing",
                     num_training_batches |-> 0, accumulate_grad_batches |-> NoIdx]
    /\ resume_checkpoint_path = NoPath
    /\ loaded_checkpoint = EmptyCheckpoint
    /\ pc = "idle"
    /\ trace = <<>>
    /\ ckop = [name |-> "init"]
    /\ ckret = Returned
    /\ lastLoaded = EmptyCheckpoint
    /\ atCall = trainer
    /\ caller = "none"
    /\ ncalls = 0
    /\ job = NoJob
    /\ written = <<>>
    /\ warned = <<>>
    /\ WorkersIdle

NextHolder ==
    \/ \E path \in HolderPaths : ResumeFromCheckpoint(path)
    \/ ResumeStart
    \/ ResumeEnd
    \/ \E path \in HolderPaths : Restore(path)
    \/ \E step \in DirectSteps : DirectCall(step)
    \/ RestoreResumeStart
    \/ RestoreDatamodule
    \/ RestoreModel
    \/ RestoreCallbacks
    \/ RestoreTrainingState
    \/ RestoreProgress
    \/ RestoreOptimizersAndSchedulers
    \/ RestoreOptimizers
    \/ RestoreLrSchedulers
    \/ RestoreResumeEnd

InitHolding == InitHolder /\ InitRC /\ training

SpecHolder == InitHolding /\ [][NextHolder]_vars

----------------------------------------------------------------------------
(* restore() on several workers *)

NextWorkers ==
    \E w \in Workers :
        \/ WorkerRestore(w)
        \/ WorkerStep(w)
        \/ WorkerRaise(w)
        \/ WorkerResumeEnd(w)
        \/ BarrierRelease(w)

InitWorkers == InitRC /\ training /\ CKIdle

SpecWorkers == InitWorkers /\ [][NextWorkers]_vars

----------------------------------------------------------------------------
(* Saving: save_checkpoint and hpc_save, and restore() of what they wrote *)

\* a file of the weights directory that is no rotation file and holds 'ckpt_'
\* and a number in its name
LAST_NAME == <<"l", "a", "s", "t", "_">> \o CKPT_NAME_KEY \o <<"3">> \o CKPT_EXT

\* the rotation files present: none, the first ones, or the last one alone
\* a file of the weights directory with both keys in its name, a number after each
TWICE_NAME == HPC_NAME_KEY \o <<"2", "_">> \o CKPT_NAME_KEY \o <<"1">> \o CKPT_EXT

SaveListings ==
    {R \cup X : R \in {{HpcPath(WEIGHTS, i) : i \in 1..k} : k \in 0..MaxHpcIndex}
                      \cup {{HpcPath(WEIGHTS, MaxHpcIndex)}},
                X \in {{}, {<<WEIGHTS, OTHER_NAME>>}, {<<WEIGHTS, BEST_NAME>>},
                       {<<WEIGHTS, LAST_NAME>>}, {<<WEIGHTS, TWICE_NAME>>}}}

\* the paths save_checkpoint is asked to write, and restore() to read
SavePaths == {<<ELSEWHERE, MODEL_NAME>>}

InitSave ==
    /\ \E files \in SaveListings : fs = [path \in files |-> StoredCheckpoint(path, "full")]
    /\ \E plugin_restores_optimizers \in BOOLEAN,
          hparams \in {NoHparams, PLAIN, LOCAL_OBJECT},
          on_hpc_save \in {"nothing", LOCAL_OBJECT} :
          trainer = [global_step |-> 0, current_epoch |-> 0, max_epochs |-> NoIdx,
                     max_steps |-> NoIdx, plugin_restores_model |-> FALSE,
                     plugin_restores_optimizers |-> plugin_restores_optimizers,
                     datamodule |-> FALSE,
                     weights |-> Fresh, callbacks |-> Fresh, precision |-> Fresh,
                     optimizers |-> Fresh, lr_schedulers |-> Fresh,
                     datamodule_state |-> Fresh,
                     hparams |-> hparams, on_hpc_save |-> on_hpc_save,
                     num_training_batches |-> 0, accumulate_grad_batches |-> NoIdx]
    /\ resume_checkpoint_path = NoPath
    /\ loaded_checkpoint = EmptyCheckpoint
    /\ pc = "idle"
    /\ trace = <<>>
    /\ ckop = [name |-> "init"]
    /\ ckret = Returned
    /\ lastLoaded = EmptyCheckpoint
    /\ atCall = trainer
    /\ caller = "none"
    /\ ncalls = 0
    /\ job = NoJob
    /\ written = <<>>
    /\ warned = <<>>
    /\ WorkersIdle

NextSave ==
    \/ \E filepath \in SavePaths, weights_only \in BOOLEAN : SaveCheckpoint(filepath, weights_only)
    \/ HpcSave(WEIGHTS)
    \/ AtomicSaveSerialize
    \/ HpcSaveRetry
    \/ AtomicSaveWriteTemp
    \/ AtomicSaveFinishTemp
    \/ AtomicSaveRename
    \/ Crash
    \/ \E path \in SavePaths \cup {NoPath} : Restore(path)
    \/ RestoreResumeStart
    \/ RestoreDatamodule
    \/ RestoreModel
    \/ RestoreCallbacks
    \/ RestoreTrainingState
    \/ RestoreProgress
    \/ RestoreOptimizersAndSchedulers
    \/ RestoreOptimizers
    \/ RestoreLrSchedulers
    \/ RestoreResumeEnd

InitSaving == InitSave /\ InitRC /\ training

SpecSave == InitSaving /\ [][NextSave]_vars

----------------------------------------------------------------------------
(* Properties of the accumulation (SpecAcc) *)

MetricKeys == {k \in DOMAIN items : IsMetrics(items[k])}
TensorLeafKeys == {k \in MetricKeys : items[k].kind = "metric" /\ items[k].rms["_"].is_tensor}

\* C1: for a mean-reduced key the accumulator holds the sum of value * batch
\* size and the sum of the batch sizes of the log calls made since the key's
\* last reset, and compute() returns their quotient, the batch-size-weighted
\* mean.
C1_WeightedMean ==
    \A k \in TensorLeafKeys :
        is_mean_reduction(items[k].meta) =>
            LET rm == items[k].rms["_"] IN
            /\ rm.value = logged[k].svb
            /\ rm.cumulated_batch_size = logged[k].sb
            /\ compute(rm, items[k].meta, ObjOf(rm)) = Frac(logged[k].svb, logged[k].sb)

\* two log calls with batch sizes 1 and 2 have been accumulated under a mean key
C1_Witness ==
    \E k \in TensorLeafKeys :
        /\ is_mean_reduction(items[k].meta)
        /\ logged[k].n = 2
        /\ logged[k].sb = 3
        /\ items[k].rms["_"].computed # Nothing

\* C2: for a max-reduced (min-reduced) key that was logged since its last
\* reset, compute() is the largest (smallest) of the values logged since then.
C2_RunningExtremum ==
    \A k \in TensorLeafKeys :
        LET rm == items[k].rms["_"] IN
        logged[k].n > 0 =>
            /\ is_max_reduction(items[k].meta) =>
                    compute(rm, items[k].meta, ObjOf(rm)) = Scalar(logged[k].mx)
            /\ is_min_reduction(items[k].meta) =>
                    compute(rm, items[k].meta, ObjOf(rm)) = Scalar(logged[k].mn)

----------------------------------------------------------------------------
(* Properties of the reset scoping (SpecScope) *)

IsTensorKind(e) == IsMetrics(e) /\ \E l \in DOMAIN e.rms : e.rms[l].is_tensor
IsObjectKind(e) == IsMetrics(e) /\ \E l \in DOMAIN e.rms : ~e.rms[l].is_tensor

IsCleared(e) ==
    /\ e.meta.has_reset
    /\ \A l \in DOMAIN e.rms : e.rms[l].value = 0 /\ e.rms[l].cumulated_batch_size = 0

\* a successful log call, seen as a step: with `marker` the scope it is
\* compared with, it resets exactly the tensor-kind keys of its own scope when
\* the marker differs and batch_idx is None or 0, and nothing otherwise; no
\* torchmetrics object is reset, and every other key is left as it was
LogResetsExactly(marker) ==
    (op'.name = "log" /\ ret'.kind = "none") =>
        LET scoped == {k \in DOMAIN items' : IsTensorKind(items'[k])
                                             /\ items'[k].meta.fx = op'.fx}
            expected == IF marker # op'.fx /\ batch_idx \in {NoIdx, 0} THEN scoped ELSE {}
        IN /\ wasReset' = expected
           /\ mobj' = mobj
           /\ \A k \in DOMAIN items :
                (k \notin expected /\ k # op'.key) => items'[k] = items[k]
           /\ \A k \in expected \ {op'.key} : IsCleared(items'[k])

\* C3 (amended): a log call resets accumulators only when its reset scope
\* differs from the active-hook marker (the scope of the last successful log
\* call, unset after construction and after reset()) and batch_idx is None or
\* 0; it then resets exactly the tensor-kind accumulators of that scope, never
\* a torchmetrics object, never another hook's or another dataloader index's
\* accumulator, and nothing when batch_idx > 0.
C3_ResetScope == [][LogResetsExactly(current_fx)]_vars

\* a log call reset the tensors of its scope and left alone a torchmetrics
\* object of the same scope that holds accumulated state
C3_Witness ==
    /\ op.name = "log"
    /\ wasReset # {}
    /\ \E k \in MetricKeys :
        /\ IsObjectKind(items[k])
        /\ items[k].meta.fx = op.fx
        /\ k \notin wasReset
        /\ ~items[k].meta.has_reset
        /\ mobj[items[k].rms["_"].ref].acc > 0

\* C3 as stated, in its first sentence: a log call resets an accumulator that
\* holds logged values only when its scope differs from the scope of the
\* previous log call and batch_idx is None or 0
C3_AsStated ==
    [][(/\ op'.name = "log"
        /\ ret'.kind = "none"
        /\ \E k \in wasReset' \cap DOMAIN items : ~items[k].meta.has_reset)
       => (prevLogFx # op'.fx /\ batch_idx \in {NoIdx, 0})]_vars

----------------------------------------------------------------------------
(* Properties of logging and of the views (SpecView) *)

\* C4: log with on_step while on_epoch_end_reached is true raises the
\* invalid-state error and leaves the collection as it was: no key created,
\* no accumulator updated or reset, the active-hook marker unchanged.
C4_OnStepAfterEpochEnd ==
    [][(op'.name = "log" /\ op'.on_step /\ on_epoch_end_reached) =>
          /\ ret' = Raise("RuntimeError")
          /\ wasReset' = {}
          /\ UNCHANGED <<items, order, mobj, current_fx, batch_idx, batch_size,
                         on_epoch_end_reached, training>>]_vars

\* a log call for a key that is not stored was refused, in a collection that
\* holds logged values
C4_Witness ==
    /\ op.name = "log"
    /\ ret = Raise("RuntimeError")
    /\ op.key \notin DOMAIN items
    /\ MetricKeys # {}
    /\ current_fx # None

SameButComputed(e1, e2) ==
    IF ~IsMetrics(e1) THEN e1 = e2
    ELSE /\ e2.kind = e1.kind
         /\ e2.meta = e1.meta
         /\ DOMAIN e2.rms = DOMAIN e1.rms
         /\ \A l \in DOMAIN e1.rms : [e2.rms[l] EXCEPT !.computed = Nothing]
                                     = [e1.rms[l] EXCEPT !.computed = Nothing]

\* C5: get_epoch_metrics returns what the previous get_epoch_metrics returned
\* when no log or reset was made in between, and it changes no accumulator
\* value, batch-size count or has_reset flag.
C5_EpochViewIdempotent ==
    [][op'.name = "get_epoch_metrics" =>
          /\ epochView # Nothing => ret' = epochView[1]
          /\ DOMAIN items' = DOMAIN items
          /\ \A k \in DOMAIN items : SameButComputed(items[k], items'[k])
          /\ mobj' = mobj]_vars

\* a second get_epoch_metrics returned metrics
C5_Witness ==
    /\ op.name = "get_epoch_metrics"
    /\ op.again
    /\ ret.kind = "metrics"
    /\ DOMAIN ret.callback # {}
    /\ \E k \in TensorLeafKeys : items[k].rms["_"].cumulated_batch_size > 0

\* the names of a key's metrics as the views are specified to show them
DlSuffixOf(meta) ==
    IF meta.dataloader_idx = NoIdx THEN ""
    ELSE "/dataloader_idx_" \o ToString(meta.dataloader_idx)
BaseName(k) == items[k].meta.name \o DlSuffixOf(items[k].meta)
ForkedName(k, on_step) ==
    items[k].meta.name
    \o (IF items[k].meta.on_step /\ items[k].meta.on_epoch
        THEN (IF on_step THEN "_step" ELSE "_epoch") ELSE "")
    \o DlSuffixOf(items[k].meta)

\* the keys whose metrics a view emits
Emitted(on_step) == {k \in DOMAIN items : Emits(k, items[k], on_step)}

ViewReturned == op.name \in {"get_batch_metrics", "get_epoch_metrics"} /\ ret.kind = "metrics"
ViewOnStep == op.name = "get_batch_metrics"

NamesOf(k, on_step) == {BaseName(k), ForkedName(k, on_step)}

UniquelyNamed(k, on_step) ==
    \A k2 \in Emitted(on_step) \ {k} : NamesOf(k2, on_step) \cap NamesOf(k, on_step) = {}

RoutedByFlags(k, on_step) ==
    /\ NamesOf(k, on_step) \subseteq DOMAIN ret.callback
        <=> (training \/ (items[k].meta.on_epoch /\ ~on_step))
    /\ ForkedName(k, on_step) \in DOMAIN ret.log <=> items[k].meta.logger
    /\ ForkedName(k, on_step) \in DOMAIN ret.pbar <=> items[k].meta.prog_bar

HoldsValueOf(k, on_step) ==
    LET v == EntryRead(items[k], on_step)[1] IN
    /\ \A n \in NamesOf(k, on_step) \cap DOMAIN ret.callback : ret.callback[n] = v
    /\ ForkedName(k, on_step) \in DOMAIN ret.log => ret.log[ForkedName(k, on_step)] = v
    /\ ForkedName(k, on_step) \in DOMAIN ret.pbar
        => ret.pbar[ForkedName(k, on_step)] = ToItems(items[k], v)

----------------------------------------------------------------------------
(* Properties of the serialization (SpecScope) *)

----------------------------------------------------------------------------
(* Properties of the checkpoint connector (SpecCK) *)

\* the indices i of the rotation checkpoints hpc_ckpt_<i>.ckpt of the weights directory
RotationIndices == {i \in 0..(MaxHpcIndex + 1) : HpcPath(WEIGHTS, i) \in DOMAIN fs}

\* C8: resume_start reads the rotation checkpoint of the highest index when
\* the weights directory holds one, whatever path was requested; otherwise
\* it reads the requested path, or raises FileNotFoundError and leaves the
\* holder as it was when that path does not exist; with nothing requested and
\* no rotation checkpoint it returns normally and loads nothing.
C8_ResumePriority ==
    ckop.name = "resume_start" =>
        IF RotationIndices # {}
        THEN /\ ckret = Returned
             /\ loaded_checkpoint = fs[HpcPath(WEIGHTS, SetMax(RotationIndices))]
        ELSE IF ckop.requested # NoPath
        THEN IF ckop.requested \in DOMAIN fs
             THEN ckret = Returned /\ loaded_checkpoint = fs[ckop.requested]
             ELSE ckret = Raise("FileNotFoundError") /\ loaded_checkpoint = ckop.held
        ELSE ckret = Returned /\ loaded_checkpoint = ckop.held

\* the same, in a weights directory where every name with the rotation
\* prefix is the name of a rotation checkpoint
C8_InCleanDirectory ==
    (\A x \in listdir(WEIGHTS) :
        Contains(x, HPC_NAME_KEY) => \E i \in RotationIndices : x = HpcPath(WEIGHTS, i)[2])
    => C8_ResumePriority

\* the steps of restore() in the order of the contract
RestoreOrder ==
    <<"read", "datamodule", "model", "callbacks", "precision", "progress", "optimizers",
      "lr_schedulers", "end">>

PlaceOf(e) == CHOOSE i \in 1..Len(RestoreOrder) : RestoreOrder[i] = e

Skipped(e) ==
    \/ e = "datamodule" /\ ~trainer.datamodule
    \/ e = "model" /\ trainer.plugin_restores_model
    \/ e \in {"optimizers", "lr_schedulers"} /\ trainer.plugin_restores_optimizers

NotSkipped(e) == ~Skipped(e)

\* C9: what a restore() has done so far is in the order read, datamodule
\* hook, model weights, callback state, precision state, loop counters,
\* optimizers, schedulers, resume_end, each at most once; and a restore()
\* that read a checkpoint and returned normally has done all of them but
\* the ones the strategy (or the absence of a datamodule) skips.
C9_RestoreOrder ==
    /\ \A i, j \in 1..Len(trace) : i < j => PlaceOf(trace[i]) < PlaceOf(trace[j])
    /\ RestoreReturned => trace = SelectSeq(RestoreOrder, NotSkipped)

\* a restore() returned after all nine steps
C9_Witness ==
    /\ RestoreReturned
    /\ Len(trace) = Len(RestoreOrder)
    /\ trainer.weights # Fresh
    /\ trainer.lr_schedulers = trainer.weights

\* C10: a restore() that returns normally from a checkpoint {epoch: e,
\* global_step: g} leaves current_epoch = e and global_step = g; the
\* dump_checkpoint() that follows it, max_steps being unset, records
\* global_step = g + 1 and epoch = e + 1.
C10_ResumeCounters ==
    /\ RestoreReturned =>
          /\ trainer.current_epoch = lastLoaded["epoch"]
          /\ trainer.global_step = lastLoaded["global_step"]
          /\ trainer.max_epochs # NoIdx => lastLoaded["epoch"] <= trainer.max_epochs
    /\ (ckop.name = "dump_checkpoint" /\ ckop.after_restore /\ trainer.max_steps = NoIdx) =>
          /\ ckret.value["global_step"] = lastLoaded["global_step"] + 1
          /\ ckret.value["epoch"] = lastLoaded["epoch"] + 1

\* a checkpoint was dumped right after a restore() under a max_epochs limit
C10_Witness ==
    /\ ckop.name = "dump_checkpoint"
    /\ ckop.after_restore
    /\ trainer.max_steps = NoIdx
    /\ trainer.max_epochs # NoIdx
    /\ lastLoaded["epoch"] = 2
    /\ ckret.value["global_step"] = 6

\* C11: dump_checkpoint records global_step = trainer.global_step + 1, and
\* epoch = trainer.current_epoch + 1 when max_steps is unset or global_step <
\* max_steps, epoch = trainer.current_epoch when max_steps <= global_step.
C11_DumpCounters ==
    ckop.name = "dump_checkpoint" =>
        /\ ckret.value["global_step"] = trainer.global_step + 1
        /\ ckret.value["epoch"] =
              IF trainer.max_steps = NoIdx \/ trainer.global_step < trainer.max_steps
              THEN trainer.current_epoch + 1
              ELSE trainer.current_epoch

\* the same for every limit but max_steps = 0
C11_WithPositiveLimit == trainer.max_steps # 0 => C11_DumpCounters

\* C12: restoring a checkpoint whose epoch exceeds max_epochs raises the
\* configuration-conflict error and leaves trainer.global_step and
\* trainer.current_epoch at the values they had before the call.
C12_ConflictKeepsCounters ==
    (pc = "idle" /\ ckop.name = "restore_progress" /\ ckret = Raise("MisconfigurationException")) =>
        /\ trainer.global_step = atCall.global_step
        /\ trainer.current_epoch = atCall.current_epoch

\* the error is raised exactly for such a checkpoint; the counters are the checkpoint's by then
C12_ConflictRaised ==
    (pc = "idle" /\ ckop.name = "restore_progress" /\ lastLoaded # EmptyCheckpoint) =>
        /\ ckret = Raise("MisconfigurationException") <=>
              (trainer.max_epochs # NoIdx /\ lastLoaded["epoch"] > trainer.max_epochs)
        /\ trainer.global_step = lastLoaded["global_step"]
        /\ trainer.current_epoch = lastLoaded["epoch"]

\* restore() has just ended with an error
RestoreAborted ==
    /\ pc = "idle"
    /\ ckret.kind = "raise"
    /\ ckop.name \in RestoreStepNames
    /\ ckop.in_restore

\* C14: when restore() aborts with a fatal error no later step runs and the
\* model weights, the callback state and the loop counters hold the values
\* they had before the call.
C14_AbortLeavesNothing ==
    RestoreAborted =>
        /\ trainer.weights = atCall.weights
        /\ trainer.callbacks = atCall.callbacks
        /\ trainer.global_step = atCall.global_step
        /\ trainer.current_epoch = atCall.current_epoch

\* an abort in resume_start, the not-found error, does leave the trainer as it was
C14_NotFoundLeavesNothing ==
    (RestoreAborted /\ ckop.name = "resume_start") => trainer = atCall

----------------------------------------------------------------------------
(* Properties of the holder (SpecHolder) *)

\* C20: the holder is filled only by a resume_start that read a file and
\* cleared only by resume_end, never by a step that raises; after resume_end,
\* so after every restore() that returns, the holder is empty and no path is
\* pending, and restore_model, restore_callbacks, restore_progress and
\* restore_optimizers_and_schedulers called then leave the trainer as it is.
C20_HolderLifetime ==
    [][/\ loaded_checkpoint' # loaded_checkpoint =>
             IF loaded_checkpoint' = EmptyCheckpoint
             THEN ckop'.name = "resume_end"
             ELSE /\ ckop'.name = "resume_start"
                  /\ trace' = <<"read">>
                  /\ loaded_checkpoint' = lastLoaded'
       /\ ckop'.name = "resume_end" =>
             loaded_checkpoint' = EmptyCheckpoint /\ resume_checkpoint_path' = NoPath
       /\ ckret'.kind = "raise" => loaded_checkpoint' = loaded_checkpoint
       /\ caller' = "direct" =>
             /\ trainer' = trainer
             /\ loaded_checkpoint' = EmptyCheckpoint
             /\ ckret' = Returned]_vars

C20_Witness ==
    /\ pc = "idle"
    /\ ckop.name = "restore_optimizers_and_schedulers"
    /\ ~ckop.in_restore
    /\ ~trainer.plugin_restores_optimizers
    /\ lastLoaded # EmptyCheckpoint
    /\ loaded_checkpoint = EmptyCheckpoint
    /\ resume_checkpoint_path = NoPath
    /\ trainer.weights = lastLoaded["state_dict"]

----------------------------------------------------------------------------
(* Properties of saving (SpecSave) *)

\* the writes that went to a path, and what the last of them was asked to write
WritesTo(path) == {i \in 1..Len(written) : written[i].filepath = path}
LastWriteTo(path) == written[SetMax(WritesTo(path))]
ProducedWeightsOnly(path) == WritesTo(path) # {} /\ LastWriteTo(path).weights_only
ProducedFull(path) == WritesTo(path) # {} /\ ~LastWriteTo(path).weights_only

LacksOptimizerState(checkpoint) ==
    \/ "optimizer_states" \notin DOMAIN checkpoint
    \/ "lr_schedulers" \notin DOMAIN checkpoint

\* C13: when the strategy does not restore the optimizers itself, restoring a
\* loaded checkpoint that lacks optimizer_states or lr_schedulers raises the
\* missing-state error (KeyError) with no optimizer and no scheduler touched;
\* a checkpoint written from dump_checkpoint(weights_only=True) always fails
\* so, one written from dump_checkpoint(weights_only=False) never does.
C13_MissingState ==
    (/\ ckop.name = "restore_optimizers_and_schedulers"
     /\ ~trainer.plugin_restores_optimizers
     /\ loaded_checkpoint # EmptyCheckpoint) =>
        /\ LacksOptimizerState(loaded_checkpoint) =>
              /\ ckret = Raise("KeyError")
              /\ pc = "idle"
              /\ trainer.optimizers = atCall.optimizers
              /\ trainer.lr_schedulers = atCall.lr_schedulers
              /\ \A i \in 1..Len(trace) : trace[i] \notin {"optimizers", "lr_schedulers"}
        /\ ~LacksOptimizerState(loaded_checkpoint) => ckret = Returned
        /\ ProducedWeightsOnly(resume_checkpoint_path) => LacksOptimizerState(loaded_checkpoint)
        /\ ProducedFull(resume_checkpoint_path) => ~LacksOptimizerState(loaded_checkpoint)

C13_Witness ==
    /\ ckop.name = "restore_optimizers_and_schedulers"
    /\ ~trainer.plugin_restores_optimizers
    /\ ProducedWeightsOnly(resume_checkpoint_path)
    /\ loaded_checkpoint = fs[resume_checkpoint_path]
    /\ ckret = Raise("KeyError")

\* the rotation files hpc_ckpt_<i>.ckpt among a set of paths, and their indices
SaveIndexRange == 0..(MaxHpcIndex + MaxSaves + 3)
IsRotationFile(path) == \E i \in SaveIndexRange : path = HpcPath(WEIGHTS, i)
RotationIndexOf(path) == CHOOSE i \in SaveIndexRange : path = HpcPath(WEIGHTS, i)
RotationIndicesIn(paths) == {i \in SaveIndexRange : HpcPath(WEIGHTS, i) \in paths}
MaxRotationIndexIn(paths) ==
    IF RotationIndicesIn(paths) = {} THEN 0 ELSE SetMax(RotationIndicesIn(paths))

\* C15: hpc_save writes to hpc_ckpt_<N+1>.ckpt, N being the highest index of
\* the files hpc_ckpt_<i>.ckpt of the directory (0 when there is none),
\* whatever other files the directory holds; before the save
\* get_max_ckpt_path_from_folder gives the path of index N.
C15_NextRotationIndex ==
    (ckop.name = "hpc_save" /\ "folderpath" \in DOMAIN ckop) =>
        /\ ckret = Returned
        /\ job.filepath = HpcPath(ckop.folderpath, MaxRotationIndexIn(job.listed) + 1)
        /\ job.expected = HpcPath(ckop.folderpath, MaxRotationIndexIn(job.listed))

\* the same, in a directory where every name holding 'ckpt_' is that of a rotation file
C15_InCleanDirectory ==
    (/\ ckop.name = "hpc_save"
     /\ "folderpath" \in DOMAIN ckop
     /\ \A path \in job.listed :
           (path[1] = WEIGHTS /\ Contains(path[2], CKPT_NAME_KEY)) => IsRotationFile(path))
    => C15_NextRotationIndex

\* the files hpc_save has written, in order
HpcWrites == SelectSeq(written, LAMBDA w : w.op = "hpc_save")

\* C16: over successive hpc_save calls into a directory the rotation indices
\* written are strictly increasing, and no step of hpc_save overwrites or
\* removes a rotation file that existed.
C16_RotationGrows ==
    [][/\ \A i, j \in 1..Len(HpcWrites') :
             i < j => RotationIndexOf(HpcWrites'[i].filepath) < RotationIndexOf(HpcWrites'[j].filepath)
       /\ job'.op = "hpc_save" =>
             \A path \in DOMAIN fs :
                 IsRotationFile(path) => path \in DOMAIN fs' /\ fs'[path] = fs[path]]_vars

C16_Witness ==
    /\ Len(HpcWrites) = 2
    /\ HpcPath(WEIGHTS, 1) \in job.listed
    /\ pc = "idle"
    /\ \A i \in 1..2 : HpcWrites[i].filepath \in DOMAIN fs

\* the first write of the hpc_save under way, or of the last one, failed on
\* an object that cannot be pickled
FirstWriteFailed ==
    /\ job.op = "hpc_save"
    /\ job.attempts # <<>>
    /\ Unpicklable(job.attempts[1].checkpoint)

C18_NoPartialFile ==
    /\ \A path \in DOMAIN fs : path[1] # TEMP => fs[path] # PARTIAL
    /\ (job.op # "none" /\ job.filepath # NoPath) =>
          \/ job.filepath \notin DOMAIN fs /\ job.previous = <<>>
          \/ job.filepath \in DOMAIN fs /\ job.previous = <<fs[job.filepath]>>
          \/ job.filepath \in DOMAIN fs /\ fs[job.filepath] = job.checkpoint

C18_Witness ==
    /\ pc = "crashed"
    /\ ckop.at = "finish_temp"
    /\ fs[TempOf(job.filepath)] = PARTIAL
    /\ job.previous # <<>>
    /\ fs[job.filepath] = job.previous[1]
    /\ fs[job.filepath] # job.checkpoint

----------------------------------------------------------------------------
(* Properties of restore() on several workers (SpecWorkers) *)

BarriersOf(w) == Len(SelectSeq(wtrace[w], LAMBDA e : e = "barrier"))

\* C19: no worker returns from resume_end before every worker has finished
\* the steps of its restore(); a restore() that returns has entered exactly
\* one barrier, as the last thing resume_end did.
C19_BarrierLast ==
    \A w \in Workers :
        /\ wpc[w] = "returned" =>
              /\ \A v \in Workers :
                    /\ wpc[v] \in {"barrier", "returned"}
                    /\ \A step \in RestoreStepNames :
                          \E k \in 1..Len(wtrace[v]) : wtrace[v][k] = step
              /\ BarriersOf(w) = 1
              /\ wtrace[w][Len(wtrace[w])] = "barrier"
              /\ wtrace[w][Len(wtrace[w]) - 1] = "resume_end"
        /\ BarriersOf(w) <= 1

C19_Witness ==
    /\ wpc[1] = "returned"
    /\ wpc[2] = "barrier"

\* hpc_save has just returned the path of the file it wrote
HpcSaveReturned ==
    /\ pc = "idle"
    /\ ckop.name = "hpc_save"
    /\ "done" \in DOMAIN ckop

\* C29: after a successful hpc_save into the weights directory, whatever
\* other files the directory holds, hpc_resume_path is the file hpc_save just
\* wrote and a following resume_start loads that file.
C29_SaveAndResumeAgree ==
    HpcSaveReturned =>
        /\ hpc_resume_path = [err |-> None, path |-> job.filepath]
        /\ resume_start.err = None
        /\ resume_start.read
        /\ resume_start.path = job.filepath
        /\ resume_start.loaded = job.checkpoint

\* the same, in a directory where every name holding 'ckpt_' is that of a rotation file
C29_InCleanDirectory ==
    (/\ HpcSaveReturned
     /\ \A path \in DOMAIN fs :
           (path[1] = WEIGHTS /\ Contains(path[2], CKPT_NAME_KEY)) => IsRotationFile(path))
    => C29_SaveAndResumeAgree

\* C30: max_ckpt_in_folder never raises, whatever the directory lists: a
\* name that holds the key and no digit after it makes neither hpc_save nor
\* resume_start fail.
C30_NeverRaises ==
    ckop.name \in {"hpc_save", "resume_start"} => ckret # Raise("ValueError")

\* where no error is raised the value is none without a matching name, and
\* else the highest of the numbers read from the matching names
C30_MaxOfMatching ==
    \A name_key \in {CKPT_NAME_KEY, HPC_NAME_KEY} :
        LET r == max_ckpt_in_folder(WEIGHTS, name_key)
            files == {x \in listdir(WEIGHTS) : Contains(x, name_key)}
            number(x) == StrToInt(DigitsOnly(SplitLast(x, name_key)))
        IN r.err = None =>
              IF files = {} THEN r.val = NoIdx
              ELSE /\ \E x \in files : r.val = number(x)
                   /\ \A x \in files : number(x) <= r.val

\* restore() is past a resume_start that resolved no checkpoint: none was
\* read and no error ended the call
RestoreWithoutCheckpoint ==
    /\ caller = "restore"
    /\ ckop.name \in RestoreStepNames
    /\ ckop.in_restore
    /\ ckop.name = "resume_start" => ckret = Returned
    /\ resume_checkpoint_path = NoPath \/ ckop.name = "resume_end"
    /\ lastLoaded = EmptyCheckpoint

\* the on_load_checkpoint hooks as restore() records them
LoadCheckpointHooks == {"datamodule", "model", "callbacks", "precision"}

\* C26: when resume_start resolves no checkpoint restore() restores nothing:
\* no load-checkpoint hook of the datamodule, the model, the callbacks or the
\* precision plugin is invoked, no optimizer or scheduler state is loaded and
\* the loop counters are unchanged.
C26_NothingRestored ==
    RestoreWithoutCheckpoint =>
        /\ \A k \in 1..Len(trace) : trace[k] \notin LoadCheckpointHooks
        /\ trainer.optimizers = atCall.optimizers
        /\ trainer.lr_schedulers = atCall.lr_schedulers
        /\ trainer.global_step = atCall.global_step
        /\ trainer.current_epoch = atCall.current_epoch

\* a step of restore() that finds the holder empty and no datamodule attached
\* invokes no hook and leaves the trainer as it is
C26_EmptyHolderStep ==
    [][(/\ caller = "restore"
        /\ pc \in RestoreStepNames \ {"resume_start"}
        /\ loaded_checkpoint = EmptyCheckpoint
        /\ ~trainer.datamodule)
       => (trainer' = trainer /\ trace' \in {trace, trace \o <<"end">>})]_vars

----------------------------------------------------------------------------
(* restore_progress and its mid-epoch warning (SpecProgress) *)

MaxGlobalStep == 5

\* the checkpoint restored: one full checkpoint saved at any step of two epochs
ProgressCheckpoints ==
    {[StoredCheckpoint(<<ELSEWHERE, MODEL_NAME>>, "full")
        EXCEPT !["global_step"] = global_step, !["epoch"] = epoch] :
     global_step \in 0..MaxGlobalStep, epoch \in {1, 3}}

InitProgress ==
    /\ \E checkpoint \in ProgressCheckpoints :
          fs = [path \in {<<ELSEWHERE, MODEL_NAME>>} |-> checkpoint]
    /\ \E max_epochs \in {NoIdx, 2}, num_training_batches \in {0, 3, 5},
          accumulate_grad_batches \in {NoIdx, 1, 2} :
          trainer = [global_step |-> 0, current_epoch |-> 0, max_epochs |-> max_epochs,
                     max_steps |-> NoIdx, plugin_restores_model |-> FALSE,
                     plugin_restores_optimizers |-> FALSE,
                     datamodule |-> FALSE,
                     weights |-> Fresh, callbacks |-> Fresh, precision |-> Fresh,
                     optimizers |-> Fresh, lr_schedulers |-> Fresh,
                     datamodule_state |-> Fresh,
                     hparams |-> NoHparams, on_hpc_save |-> "nothing",
                     num_training_batches |-> num_training_batches,
                     accumulate_grad_batches |-> accumulate_grad_batches]
    /\ resume_checkpoint_path = NoPath
    /\ loaded_checkpoint = EmptyCheckpoint
    /\ pc = "idle"
    /\ trace = <<>>
    /\ ckop = [name |-> "init"]
    /\ ckret = Returned
    /\ lastLoaded = EmptyCheckpoint
    /\ atCall = trainer
    /\ caller = "none"
    /\ ncalls = 0
    /\ job = NoJob
    /\ written = <<>>
    /\ warned = <<>>
    /\ WorkersIdle

NextProgress ==
    \/ \E path \in {NoPath, <<ELSEWHERE, MODEL_NAME>>} : Restore(path)
    \/ RestoreResumeStart
    \/ RestoreDatamodule
    \/ RestoreModel
    \/ RestoreCallbacks
    \/ RestoreTrainingState
    \/ RestoreProgress
    \/ RestoreOptimizersAndSchedulers
    \/ RestoreOptimizers
    \/ RestoreLrSchedulers
    \/ RestoreResumeEnd

InitProgressing == InitProgress /\ InitRC /\ training

SpecProgress == InitProgressing /\ [][NextProgress]_vars

\* restore() has given the mid-epoch warning
MidEpochWarned == \E k \in 1..Len(trace) : trace[k] = MID_EPOCH_WARNING

\* global_step modulo (num_training_batches / accumulate_grad_batches)
\* exceeds 1: with q the whole number of times the fraction fits in
\* global_step, more than 1 is left (both sides multiplied by the factor)
RemainderExceedsOne(global_step) ==
    LET factor == IF trainer.accumulate_grad_batches = NoIdx THEN 1
                  ELSE trainer.accumulate_grad_batches
        batches == trainer.num_training_batches
    IN  /\ batches > 0
        /\ \E q \in 0..(global_step * factor) :
              /\ q * batches <= global_step * factor
              /\ global_step * factor < (q + 1) * batches
              /\ global_step * factor - q * batches > factor

\* restore_progress has reached its mid-epoch check: the holder was filled
\* and the max_epochs check has passed
MidEpochChecked ==
    /\ ckop.name = "restore_progress"
    /\ lastLoaded # EmptyCheckpoint
    /\ ckret = Returned

\* C24: restore_progress gives the mid-epoch warning exactly when global_step
\* modulo (num_training_batches / accumulate_grad_batches, the factor 1 when
\* unset) exceeds 1; the warning is not fatal: the counters keep the restored
\* values and the optimizer and scheduler restore still runs; with
\* num_training_batches = 0 there is no warning and no failure.
C24_MidEpochWarning ==
    /\ MidEpochChecked =>
          /\ MidEpochWarned <=> RemainderExceedsOne(lastLoaded["global_step"])
          /\ trainer.global_step = lastLoaded["global_step"]
          /\ trainer.current_epoch = lastLoaded["epoch"]
          /\ pc = "restore_optimizers_and_schedulers"
    /\ MidEpochWarned =>
          /\ ckret = Returned
          /\ trainer.global_step = lastLoaded["global_step"]
          /\ trainer.current_epoch = lastLoaded["epoch"]
          /\ pc = "idle" =>
                /\ trainer.optimizers = lastLoaded["optimizer_states"]
                /\ trainer.lr_schedulers = lastLoaded["lr_schedulers"]
    /\ trainer.num_training_batches = 0 =>
          /\ ~MidEpochWarned
          /\ ckop.name = "restore_progress" =>
                (ckret = Returned \/ ckret = Raise("MisconfigurationException"))

\* a restore() that warned (with an accumulation factor of 2) has returned
\* with the optimizers restored
C24_Witness ==
    /\ pc = "idle"
    /\ ckop.name = "resume_end"
    /\ MidEpochWarned
    /\ trainer.accumulate_grad_batches = 2
    /\ trainer.optimizers = lastLoaded["optimizer_states"]

----------------------------------------------------------------------------
(* Save and restore cycles with no training in between (SpecCycle) *)

CYCLE_PATH == <<ELSEWHERE, MODEL_NAME>>

\* the step the trainer stands at before the first cycle
CYCLE_START_STEP == 1

InitCycle ==
    /\ fs = [path \in {} |-> EmptyCheckpoint]
    /\ \E max_epochs \in {NoIdx, 1}, max_steps \in {NoIdx, 0, 2},
          plugin_restores_optimizers \in BOOLEAN :
          trainer = [global_step |-> CYCLE_START_STEP, current_epoch |-> 0,
                     max_epochs |-> max_epochs, max_steps |-> max_steps,
                     plugin_restores_model |-> FALSE,
                     plugin_restores_optimizers |-> plugin_restores_optimizers,
                     datamodule |-> FALSE,
                     weights |-> Fresh, callbacks |-> Fresh, precision |-> Fresh,
                     optimizers |-> Fresh, lr_schedulers |-> Fresh,
                     datamodule_state |-> Fresh,
                     hparams |-> NoHparams, on_hpc_save |-> "nothing",
                     num_training_batches |-> 0, accumulate_grad_batches |-> NoIdx]
    /\ resume_checkpoint_path = NoPath
    /\ loaded_checkpoint = EmptyCheckpoint
    /\ pc = "idle"
    /\ trace = <<>>
    /\ ckop = [name |-> "init"]
    /\ ckret = Returned
    /\ lastLoaded = EmptyCheckpoint
    /\ atCall = trainer
    /\ caller = "none"
    /\ ncalls = 0
    /\ job = NoJob
    /\ written = <<>>
    /\ warned = <<>>
    /\ WorkersIdle

\* save_checkpoint() has just written its file
SavedAndNotRestored ==
    /\ ckop.name = "save_checkpoint"
    /\ "done" \in DOMAIN ckop

\* restore() is called only on the checkpoint just saved
NextCycle ==
    \/ \E weights_only \in BOOLEAN : SaveCheckpoint(CYCLE_PATH, weights_only)
    \/ AtomicSaveSerialize
    \/ AtomicSaveWriteTemp
    \/ AtomicSaveFinishTemp
    \/ AtomicSaveRename
    \/ \E weights_only \in BOOLEAN : DumpCheckpoint(weights_only)
    \/ SavedAndNotRestored /\ RestoreUpTo(CYCLE_PATH, MaxSaves)
    \/ RestoreResumeStart
    \/ RestoreDatamodule
    \/ RestoreModel
    \/ RestoreCallbacks
    \/ RestoreTrainingState
    \/ RestoreProgress
    \/ RestoreOptimizersAndSchedulers
    \/ RestoreOptimizers
    \/ RestoreLrSchedulers
    \/ RestoreResumeEnd

InitCycling == InitCycle /\ InitRC /\ training

SpecCycle == InitCycling /\ [][NextCycle]_vars

\* restore() is under way and restore_progress has not run yet
BeforeRestoreProgress ==
    /\ caller = "restore"
    /\ pc \in {"resume_start", "restore_datamodule", "restore_model", "restore_callbacks",
               "restore_training_state", "restore_progress"}

\* the cycles completed as far as the counters go
CyclesDone == IF BeforeRestoreProgress THEN ncalls - 1 ELSE ncalls

\* restore_progress has just run in a cycle
CycleRestored ==
    /\ ckop.name = "restore_progress"
    /\ lastLoaded = job.checkpoint

\* C27: dump_checkpoint followed by restoring that checkpoint leaves
\* global_step exactly one higher than before the dump, and current_epoch one
\* higher unless max_steps has been reached (then unchanged); after k such
\* cycles global_step has grown by exactly k.
C27_CycleCounters ==
    /\ trainer.global_step = CYCLE_START_STEP + CyclesDone
    /\ CycleRestored =>
          /\ trainer.global_step = atCall.global_step + 1
          /\ trainer.current_epoch =
                IF atCall.max_steps # NoIdx /\ atCall.max_steps <= atCall.global_step
                THEN atCall.current_epoch
                ELSE atCall.current_epoch + 1

\* the same for every limit but max_steps = 0
C27_WithPositiveLimit == trainer.max_steps # 0 => C27_CycleCounters

\* the growth of global_step alone, whatever the limit
C27_StepGrowsByCycles ==
    /\ trainer.global_step = CYCLE_START_STEP + CyclesDone
    /\ CycleRestored => trainer.global_step = atCall.global_step + 1

\* dump_checkpoint by itself, also as the first step of save_checkpoint, leaves the trainer as it is
C27_DumpKeepsCounters ==
    [][(ckop'.name \in {"dump_checkpoint", "save_checkpoint"} \/ job' # job)
       => trainer' = trainer]_vars

----------------------------------------------------------------------------
(* Properties of reset keys in the views (SpecView) *)

\* the names the maps of the returned view are keyed by
ViewNames == DOMAIN ret.callback \cup DOMAIN ret.log \cup DOMAIN ret.pbar

\* the key has been reset and not logged since
IsReset(k) == items[k].meta.has_reset

\* no key that has not been reset shows under one of the display names of k
NamesOwnedBy(k, on_step) ==
    \A k2 \in MetricKeys \ {k} :
        ~IsReset(k2) => NamesOf(k2, on_step) \cap NamesOf(k, on_step) = {}

\* the view shows nothing under the display names of k
HiddenFromView(k, on_step) == NamesOf(k, on_step) \cap ViewNames = {}

\* C21: neither get_batch_metrics() nor get_epoch_metrics() returns an entry
\* for a key whose accumulators have been reset and not logged since, whether
\* the key holds a single ResultMetric or a nested collection of them.
C21_ResetKeysHidden ==
    ViewReturned =>
        \A k \in MetricKeys :
            (IsReset(k) /\ NamesOwnedBy(k, ViewOnStep)) => HiddenFromView(k, ViewOnStep)

\* the same for the keys that hold a single ResultMetric
C21_SingleMetricHidden ==
    ViewReturned =>
        \A k \in MetricKeys :
            (items[k].kind = "metric" /\ IsReset(k) /\ NamesOwnedBy(k, ViewOnStep))
            => HiddenFromView(k, ViewOnStep)

\* a log call that updates a key makes it visible again: has_reset is cleared
C21_LogShowsAgain ==
    (op.name = "log" /\ ret.kind = "none") => ~IsReset(op.key)

----------------------------------------------------------------------------
(* Properties of reset(metrics) (SpecScope) *)

\* the keys reset(metrics) is to reset: those of torchmetrics objects for
\* True, those of tensors for False, all for None, whatever their hook
RequestedKeys(metrics) ==
    {k \in MetricKeys :
        \/ metrics = None
        \/ metrics = "True" /\ IsObjectKind(items[k])
        \/ metrics = "False" /\ IsTensorKind(items[k])}

\* a reset(metrics) call, seen as a step: the requested keys are cleared (the
\* live object of a torchmetrics key too), every other key and object is as
\* it was
ResetClearsExactly ==
    op'.name = "reset" =>
        LET requested == RequestedKeys(op'.metrics) IN
        /\ \A k \in requested :
              /\ items'[k].meta.has_reset
              /\ IsTensorKind(items[k]) => IsCleared(items'[k])
              /\ IsObjectKind(items[k]) =>
                    \A l \in DOMAIN items[k].rms : mobj'[items[k].rms[l].ref].acc = 0
        /\ \A k \in DOMAIN items \ requested : items'[k] = items[k]
        /\ DOMAIN items' = DOMAIN items
        /\ \A a \in DOMAIN mobj :
              (\A k \in requested : \A l \in DOMAIN items[k].rms : items[k].rms[l].ref # a)
              => mobj'[a] = mobj[a]

\* what reset leaves behind
ResetLeavesUnset ==
    op'.name = "reset" =>
        /\ ~on_epoch_end_reached'
        /\ current_fx' = None
        /\ batch_idx' = NoIdx

\* the log call that follows a reset resets the tensors of its own scope: the
\* other tensor keys of the scope are cleared and the key logged holds the
\* value of this call alone
LogAfterResetResets ==
    (op.name = "reset" /\ op'.name = "log") =>
        /\ ret'.kind = "none"
        /\ \A k \in DOMAIN items' \ {op'.key} :
              (IsTensorKind(items'[k]) /\ items'[k].meta.fx = op'.fx) => IsCleared(items'[k])
        /\ IsTensorKind(items'[op'.key]) => logged'[op'.key].n = 1

\* C22: reset(metrics) resets, for every hook scope, exactly the metric-object
\* accumulators when metrics is true, exactly the tensor accumulators when it
\* is false and both when it is None; it leaves on_epoch_end_reached false,
\* the active-hook marker unset and batch_idx unset, so that the next log call
\* under any hook resets that hook's tensors.
C22_ResetKinds ==
    [][ResetClearsExactly /\ ResetLeavesUnset /\ LogAfterResetResets]_vars

\* reset(metrics=True) has cleared a torchmetrics object that had accumulated
\* and has kept the tensor accumulators of a key of another hook
C22_Witness ==
    /\ op.name = "reset"
    /\ op.metrics = "True"
    /\ \E k \in MetricKeys :
          /\ IsObjectKind(items[k])
          /\ k \in wasReset
          /\ items[k].meta.has_reset
    /\ \E k \in MetricKeys :
          /\ IsTensorKind(items[k])
          /\ ~items[k].meta.has_reset
          /\ \E l \in DOMAIN items[k].rms : items[k].rms[l].cumulated_batch_size > 0

----------------------------------------------------------------------------
(* The Metadata of a key over its log calls (SpecMeta) *)

MaxMetaLogs == 3

\* (prog_bar, logger, on_step, on_epoch, reduce_fx) of a log call
MetaFlags == {<<FALSE, TRUE, FALSE, TRUE, "mean">>, <<TRUE, FALSE, TRUE, TRUE, "max">>,
              <<TRUE, TRUE, TRUE, FALSE, "min">>}

\* a tensor under one hook and a dict of tensors under another, with a
\* dataloader index, each logged with any of the flag settings
MetaCalls ==
    {Call("training_step", "loss", "tensor", 2, f[1], f[2], f[3], f[4], f[5], NoIdx, 0, None) :
        f \in MetaFlags}
    \cup {Call("validation_step", "pair", "dict", DictValue, f[1], f[2], f[3], f[4], f[5], 0, 0, None) :
        f \in MetaFlags}

NextMeta ==
    \/ \E c \in MetaCalls : nlogs < MaxMetaLogs /\ Log(c)
    \/ \E i \in 0..MaxBatchIdx : SetBatchIdx(i)
    \/ \E m \in {None, "True", "False"} : Reset(m)

InitMeta == InitRC /\ training /\ CKIdle

SpecMeta == InitMeta /\ [][NextMeta]_vars

\* the Metadata fields but has_reset
MetaFields(meta) ==
    <<meta.fx, meta.name, meta.prog_bar, meta.logger, meta.on_step, meta.on_epoch,
      meta.reduce_fx, meta.dataloader_idx>>

\* the same fields as a log call gives them: the hook scope is the hook name
\* with the dataloader index appended
FieldsGiven(c) ==
    <<IF c.dataloader_idx = NoIdx THEN c.fx ELSE c.fx \o "." \o ToString(c.dataloader_idx),
      c.name, c.prog_bar, c.logger, c.on_step, c.on_epoch, c.reduce_fx, c.dataloader_idx>>

\* the step is the log call c, made for a key that is not stored yet
FirstLogOf(c) ==
    /\ StorageKey(c.fx, c.name, c.dataloader_idx) \notin DOMAIN items
    /\ op'.name = "log"
    /\ op'.key = StorageKey(c.fx, c.name, c.dataloader_idx)
    /\ ret'.kind = "none"
    /\ Log(c)

\* C23: the Metadata of a key is built by the first log call for the key and
\* reused by every later one: through log and reset calls every field but
\* has_reset keeps the value the first log call gave, also when later calls
\* for the key pass other flags.
C23_MetadataOfFirstLog ==
    [][/\ \A c \in MetaCalls :
             FirstLogOf(c) => MetaFields(items'[op'.key].meta) = FieldsGiven(c)
       /\ \A k \in MetricKeys :
             /\ k \in DOMAIN items'
             /\ IsMetrics(items'[k])
             /\ MetaFields(items'[k].meta) = MetaFields(items[k].meta)]_vars

\* a key first logged for the logger alone, then reset, has been logged again
\* with other flags and its Metadata still names the logger alone
C23_Witness ==
    /\ op.name = "log"
    /\ op.on_step
    /\ nlogs >= 2
    /\ op.key \in MetricKeys
    /\ ~items[op.key].meta.on_step
    /\ ~items[op.key].meta.prog_bar
    /\ items[op.key].meta.logger
    /\ items[op.key].meta.reduce_fx = "mean"
    /\ logged[op.key].n = 1

----------------------------------------------------------------------------
(* extract_batch_size (SpecBatch) *)

\* A batch is a tensor with its shape, a string with its length, a dict with
\* its values in order, another iterable with its elements in order, any
\* other value (a number, None), or a list that holds itself.
TensorOf(shape) == [tag |-> "tensor", shape |-> shape, len |-> 0, elems |-> <<>>]
StrOf(len) == [tag |-> "str", shape |-> <<>>, len |-> len, elems |-> <<>>]
DictOf(values) == [tag |-> "dict", shape |-> <<>>, len |-> 0, elems |-> values]
IterableOf(elems) == [tag |-> "iterable", shape |-> <<>>, len |-> 0, elems |-> elems]
OtherValue == [tag |-> "other", shape |-> <<>>, len |-> 0, elems |-> <<>>]
SelfContaining == [tag |-> "self-containing", shape |-> <<>>, len |-> 0, elems |-> <<>>]

\* the depth of calls at which the interpreter raises RecursionError
RecursionLimit == 5

\* ResultCollection._extract_batch_size at call depth `depth`: the size, or
\* the error raised. next(iter(...), 1) gives 1 for an empty container, and
\* the call on 1 returns 1
RECURSIVE _extract_batch_size(_, _)
_extract_batch_size(batch, depth) ==
    IF depth > RecursionLimit THEN [err |-> "RecursionError", size |-> 0]
    ELSE IF batch.tag = "tensor" THEN
        IF batch.shape = <<>> THEN [err |-> "IndexError", size |-> 0]
        ELSE [err |-> None, size |-> batch.shape[1]]
    ELSE IF batch.tag = "str" THEN [err |-> None, size |-> batch.len]
    ELSE IF batch.tag \in {"dict", "iterable"} THEN
        _extract_batch_size(IF batch.elems = <<>> THEN OtherValue ELSE batch.elems[1],
                            depth + 1)
    ELSE IF batch.tag = "self-containing" THEN _extract_batch_size(batch, depth + 1)
    ELSE [err |-> None, size |-> 1]

\* ResultCollection.extract_batch_size(batch)
ExtractBatchSize(batch) ==
    LET r == _extract_batch_size(batch, 1) IN
    /\ batch_size' = IF r.err = "RecursionError" THEN 1
                     ELSE IF r.err # None THEN batch_size ELSE r.size
    /\ ret' = IF r.err \in {None, "RecursionError"} THEN NoRet ELSE Raise(r.err)
    /\ op' = [name |-> "extract_batch_size", batch |-> batch]
    /\ wasReset' = {}
    /\ UNCHANGED <<items, order, training, on_epoch_end_reached, current_fx, batch_idx,
                   mobj, logged, prevLogFx, epochView, nlogs>>
    /\ UNCHANGED ckvars

MaxNesting == 1

\* the values at the bottom of a batch: tensors without a dimension, without
\* rows, with rows, strings, and other values
FlatBatches ==
    {TensorOf(shape) : shape \in {<<>>, <<0>>, <<3>>, <<2, 4>>}}
    \cup {StrOf(len) : len \in {0, 2}}
    \cup {OtherValue, SelfContaining}

\* the batches nested at most n deep, containers of up to two elements
RECURSIVE BatchesOfDepth(_)
BatchesOfDepth(n) ==
    IF n = 0 THEN FlatBatches
    ELSE LET inner == BatchesOfDepth(n - 1)
             seqs == {<<>>} \cup {<<x>> : x \in inner}
                     \cup {<<x, y>> : x \in inner, y \in FlatBatches}
         IN inner \cup {DictOf(s) : s \in seqs} \cup {IterableOf(s) : s \in seqs}

NextBatch == \E batch \in BatchesOfDepth(MaxNesting) : ExtractBatchSize(batch)

InitBatch == InitRC /\ training /\ CKIdle

SpecBatch == InitBatch /\ [][NextBatch]_vars

\* the value the batch size is read from: the first value or element, taken
\* again and again; none in an empty container
RECURSIVE FirstValue(_)
FirstValue(batch) ==
    IF batch.tag \in {"dict", "iterable"}
    THEN IF batch.elems = <<>> THEN Nothing ELSE FirstValue(batch.elems[1])
    ELSE Some(batch)

\* C25: extract_batch_size sets batch_size to the leading-dimension size for
\* a tensor, the length for a string, what the first value of a mapping or
\* the first element of another iterable gives, 1 for an empty container and
\* for any other value, and to 1 without raising when the recursion runs away.
C25_BatchSize ==
    op.name = "extract_batch_size" =>
        LET first == FirstValue(op.batch) IN
        /\ ret = NoRet
        /\ batch_size =
              IF first = Nothing THEN 1
              ELSE IF first[1].tag = "tensor" /\ first[1].shape # <<>> THEN first[1].shape[1]
              ELSE IF first[1].tag = "str" THEN first[1].len
              ELSE 1

\* the batch size is read from a tensor without a dimension
ReadsScalarTensor ==
    /\ op.name = "extract_batch_size"
    /\ FirstValue(op.batch) # Nothing
    /\ FirstValue(op.batch)[1] = TensorOf(<<>>)

\* the same for every batch but those whose size is read from a tensor without a dimension
C25_WithLeadingDimension == ~ReadsScalarTensor => C25_BatchSize

\* a runaway recursion has ended with batch size 1 and no error
C25_RunawayGivesOne ==
    (op.name = "extract_batch_size" /\ FirstValue(op.batch) = Some(SelfContaining))
    => (ret = NoRet /\ batch_size = 1)

----------------------------------------------------------------------------
(* Logging under several hooks within one epoch (SpecEpoch) *)

MaxEpochLogs == 3

\* one mean-reduced tensor name logged under two hooks
EpochCalls == {c \in AccCalls : c.reduce_fx = "mean"}

\* the loop goes from batch to batch: batch_idx is unset, then 0, 1, 2, ...
NextBatchIdx == IF batch_idx = NoIdx THEN 0 ELSE batch_idx + 1

\* one epoch: log calls and the advance of batch_idx, no reset() call
NextEpoch ==
    \/ \E c \in EpochCalls : nlogs < MaxEpochLogs /\ Log(c)
    \/ NextBatchIdx <= MaxBatchIdx /\ SetBatchIdx(NextBatchIdx)

InitEpoch == InitRC /\ training /\ CKIdle

SpecEpoch == InitEpoch /\ [][NextEpoch]_vars

\* the mean-reduced tensor keys
MeanKeys == {k \in TensorLeafKeys : is_mean_reduction(items[k].meta)}

\* a log call, seen as a step, keeps what the mean-reduced keys have
\* accumulated: the weights of the values logged so far are still counted
KeepsAccumulated ==
    (op'.name = "log" /\ ret'.kind = "none") =>
        \A k \in MeanKeys :
            /\ items'[k].rms["_"].cumulated_batch_size >= items[k].rms["_"].cumulated_batch_size
            /\ k # op'.key => items'[k].rms["_"] = items[k].rms["_"]

\* C28: within one epoch every value logged under a mean-reduced key
\* contributes to the key's epoch value: no log call, under whatever hook,
\* discards a value logged earlier in the epoch, also when the hooks alternate
\* while batch_idx is still 0 or unset.
C28_NothingDiscarded == [][KeepsAccumulated]_vars

\* nothing is discarded by a log call under the hook of the log call before
\* it, nor by any log call once batch_idx has passed 0
C28_SameHookOrLaterBatch ==
    [][(op'.name = "log" /\ (current_fx = op'.fx \/ batch_idx \notin {NoIdx, 0}))
       => KeepsAccumulated]_vars

\* a log call under another hook leaves the keys of the other hooks as they are
C28_OtherHooksKept ==
    [][(op'.name = "log" /\ ret'.kind = "none") =>
          \A k \in MeanKeys : items[k].meta.fx # op'.fx => items'[k] = items[k]]_vars

====
